---- MODULE Spec2Model ----
(***************************************************************************)
(* Tile fetcher of Map-App: src/utils/xyz_tiles.py (the same dispatcher    *)
(* and worker are repeated verbatim in download_tile_corridor.py and       *)
(* download_tile_tolerance.py).                                            *)
(*                                                                         *)
(* One dispatcher thread (download_xyz_tiles) walks tiles_to_download,     *)
(* skips existing files, acquires the module-level semaphore and starts    *)
(* one worker thread (download_tile) per remaining tile, joins them and    *)
(* appends the failures to missed_tiles.log.                               *)
(*                                                                         *)
(* Mosaic builder: src/utils/raster_map.py (merge_tiles, merge_tiles_bbox, *)
(* merge_tiles_path, make_tif, compress_with_gdal), single-threaded.       *)
(* Coordinate transforms: src/utils/utils.py (tile2deg, deg2tile,          *)
(* cal_pixel_size), pure functions.                                        *)
(***************************************************************************)
EXTENDS Integers, Sequences, FiniteSets, TLC

\* ---------------------------------------------------------------- bounds
NumTiles == 2        \* tiles of the region of a batch
MaxBatches == 2      \* batches run one after the other under the same root
ManyTiles == 12      \* tiles of the region in the semaphore specification
Zoom == 1            \* the single zoom level of the region
MaxZoom == 2         \* largest zoom level of a tile selection
MaxFiles == 3        \* files under the tile folder of a mosaic build
NegZooms == 2        \* negative zoom levels a transform is called with
OtherTiles == 1      \* tiles a second call has yet to dispatch outside the region of the first

\* ---------------------------------------------------------------- program constants
MAX_THREADS == 10    \* xyz_tiles.py:10
MinTileBytes == 200  \* xyz_tiles.py:66
HttpOk == 200        \* xyz_tiles.py:65
RetryTotal == 5      \* xyz_tiles.py:17
TILE_SIZE == 256     \* utils.py:10, raster_map.py:125

VARIABLES
    \* the file system under save_path
    disk,               \* final path of a tile -> "none" | "partial" | "file"
    dirs,               \* directories <<z, x>> that exist
    log,                \* lines of missed_tiles.log
    \* module-level state
    permits,            \* value of thread_limiter
    \* arguments and locals of the running download_xyz_tiles call
    batchNo,
    progress_callback,  \* TRUE iff a callback is supplied
    skip_if_exists,
    allow_overwrite,
    tiles_to_download,
    total_tiles,
    missed,
    counter,            \* counter[0]
    lock,               \* holder of progress_lock: 0 free, -1 dispatcher, i worker i
    threads,
    idx,                \* position of the dispatch loop in tiles_to_download
    jdx,                \* position of the join loop in threads
    d_pc,               \* dispatcher: idle loop lock cb join log returned raised
    ret,                \* value returned by the call
    \* the worker threads, by position of their tile in tiles_to_download
    w_pc,               \* idle start write lock cb release done
    \* observation of the run (what an instrumented fetcher and callback see)
    calls,              \* pairs passed to progress_callback, in order
    cbs,                \* callbacks made for each tile
    gets,               \* _SESSION.get calls made for each tile
    out,                \* outcome of each tile
    wrote,              \* tiles whose final path was opened for writing
    small,              \* tiles answered 200 with a body under MinTileBytes
    disk0, log0,        \* disk and log when the batch started
    attempts,           \* per tile, the HTTP attempts made inside _SESSION.get: [made, last]
    \* a second call of download_xyz_tiles that runs at the same time on the same
    \* root directory and the same thread_limiter
    o_idx,              \* position of its dispatch loop in the tiles it shares with the
                        \* first call; 0 while it is not called
    o_pc,               \* its workers for the shared tiles: idle start write release done
    o_left,             \* its tiles outside the region of the first call, not yet dispatched
    o_held,             \* its workers for those tiles that hold a permit
    \* arguments of download_xyz_tiles that select the tiles
    extent,             \* [n, s, e, w] in whole degrees
    zoom,               \* <<min_z, max_z>>
    \* arguments of download_path_tiles and download_triangular_path_tiles
    route,              \* [point1, point2, buffer_width_km] or [point1, point2, tolerance,
                        \* min_width_km]; points <<lon, lat>> in whole degrees, widths in
                        \* km, tolerance in 1/100; <<>> when neither is called
    \* a mosaic build (raster_map.py)
    m_pc,               \* idle, the state the build is in, returned, raised
    mode,               \* "all" merge_tiles, "bbox" merge_tiles_bbox, "path" merge_tiles_path
    compress_type,
    points_ok,          \* len(points) >= 2 (merge_tiles_path)
    corridor,           \* tile ids <<x, y>> that pass the corridor test of the path
    output_path,        \* the output path, cut into pieces at every ".tif" it holds
    folder,             \* the files under tile_folder, in glob order
    tile_files,
    tile_coords,
    actual,             \* [x_min, x_max, y_min, y_max] of the filtered tiles, <<>> before
    merged_image,       \* <<width, height>> of the canvas, <<>> while not allocated
    pasted,             \* <<x, y, x_offset, y_offset>> of every paste, in order
    transform,          \* <<west_lon, north_lat>> given to from_origin, <<>> before
    raw_output,         \* the file at the temporary raw path: "none" | "file"
    output_tif,         \* the file at the output path: "none" | "file"
    reads,              \* tile files opened by Image.open
    m_trace,            \* the states the build went through, in order
    \* a call of a coordinate transform (utils.py)
    t_call,             \* <<name, arguments>>, <<>> before the call
    t_result            \* what the call returned or raised, <<>> before

vars == <<disk, dirs, log, permits, batchNo, progress_callback, skip_if_exists,
          allow_overwrite, tiles_to_download, total_tiles, missed, counter, lock,
          threads, idx, jdx, d_pc, ret, w_pc, calls, cbs, gets, out, wrote,
          small, disk0, log0, attempts, extent, zoom, route, m_pc, mode, compress_type,
          points_ok, corridor, output_path, folder, tile_files, tile_coords, actual, merged_image,
          pasted, transform, raw_output, output_tif, reads, m_trace, t_call, t_result,
          o_idx, o_pc, o_left, o_held>>

selVars == <<extent, zoom, route>>
mosaicVars == <<m_pc, mode, compress_type, points_ok, corridor, output_path, folder, tile_files,
                tile_coords, actual, merged_image, pasted, transform, raw_output,
                output_tif, reads, m_trace>>
transVars == <<t_call, t_result>>
otherVars == <<o_idx, o_pc, o_left, o_held>>
\* what a step of the fetcher leaves alone
auxVars == <<attempts, selVars, mosaicVars, transVars, otherVars>>

fsVars == <<disk, dirs, log>>
argVars == <<batchNo, progress_callback, skip_if_exists, allow_overwrite,
             tiles_to_download, total_tiles, disk0, log0>>
\* the state of the fetcher
fetchVars == <<fsVars, argVars, permits, missed, counter, lock, threads, idx, jdx, d_pc,
               ret, w_pc, calls, cbs, gets, out, wrote, small, attempts, otherVars>>

\* ---------------------------------------------------------------- tile lists
\* mutant: the last row of the rectangle is left out
ColumnTiles_Exclusive(z, x, sy, ey) == [k \in 1..(ey - sy) |-> <<z, x, sy + k - 1>>]

\* for y in range(sy, ey + 1): tiles_to_download.append((z, x, y))
ColumnTiles(z, x, sy, ey) == [k \in 1..(ey - sy + 1) |-> <<z, x, sy + k - 1>>]

\* mutant: every column is enumerated twice
RectTiles_Twice(z, sx, ex, sy, ey) ==
    [k \in 1..(2 * (ex - sx + 1)) |-> <<z, sx + ((k - 1) \div 2), sy>>]

RECURSIVE RectTiles(_, _, _, _, _)
\* for x in range(sx, ex + 1): for y in range(sy, ey + 1)
RectTiles(z, sx, ex, sy, ey) ==
    IF sx > ex THEN <<>>
    ELSE ColumnTiles(z, sx, sy, ey) \o RectTiles(z, sx + 1, ex, sy, ey)

\* the region of the model: one row of n tiles at zoom Zoom
Region(n) == RectTiles(Zoom, 0, n - 1, 0, 0)

Range(s) == { s[k] : k \in 1..Len(s) }
TileIx == 1..Len(tiles_to_download)
DirOf(t) == <<t[1], t[2]>>
\* os.path.isfile(file_path)
IsFile(t) == disk[t] # "none"

\* f"HTTP {resp.status_code} for tile ..."
HttpMsg(status) ==
    CASE status = HttpOk -> "HTTP 200"
      [] status = 404 -> "HTTP 404"
      [] OTHER -> "HTTP 503"
Statuses == {HttpOk, 503}
Lengths == {0, MinTileBytes - 1, MinTileBytes}

\* f"{z}/{x}/{y} -> {why}" for x, y, z, why in missed
LogLine(m) == <<m[3], m[1], m[2], m[4]>>
LogLines(ms) == [k \in 1..Len(ms) |-> LogLine(ms[k])]

\* ---------------------------------------------------------------- initial state
\* a root directory that holds the first k tiles of the region, k in filled, and no
\* log; the arguments of the call
CallInit(n, callbacks, skips, overwrites, filled) ==
    /\ tiles_to_download = Region(n)
    /\ \E k \in filled :
          /\ disk = [t \in Range(Region(n)) |-> IF t \in Range(SubSeq(Region(n), 1, k))
                                                   THEN "file" ELSE "none"]
          /\ dirs = { DirOf(t) : t \in Range(SubSeq(Region(n), 1, k)) }
    /\ disk0 = disk
    /\ w_pc = [i \in 1..n |-> "idle"]
    /\ cbs = [i \in 1..n |-> 0]
    /\ gets = [i \in 1..n |-> 0]
    /\ out = [i \in 1..n |-> "none"]
    /\ log = <<>>
    /\ log0 = <<>>
    /\ batchNo = 0
    /\ progress_callback \in callbacks
    /\ skip_if_exists \in skips
    /\ allow_overwrite \in overwrites
    /\ total_tiles = 0
    /\ missed = <<>>
    /\ counter = 0
    /\ lock = 0
    /\ threads = <<>>
    /\ idx = 1
    /\ jdx = 1
    /\ d_pc = "idle"
    /\ ret = <<>>
    /\ calls = <<>>
    /\ wrote = {}
    /\ small = {}
    /\ attempts = [i \in 1..n |-> [made |-> 0, last |-> 0]]

\* xyz_tiles.py:11 thread_limiter = Semaphore(MAX_THREADS), no call under way
FetcherInit(n, callbacks, skips, overwrites, filled) ==
    /\ CallInit(n, callbacks, skips, overwrites, filled)
    /\ permits = MAX_THREADS

\* no tile selection is being computed
SelectorIdle ==
    /\ extent = <<>>
    /\ zoom = <<>>
    /\ route = <<>>

\* no mosaic is being built
MosaicIdle ==
    /\ m_pc = "idle"
    /\ mode = "none"
    /\ compress_type = "none"
    /\ points_ok = TRUE
    /\ corridor = {}
    /\ output_path = <<>>
    /\ folder = <<>>
    /\ tile_files = <<>>
    /\ tile_coords = <<>>
    /\ actual = <<>>
    /\ merged_image = <<>>
    /\ pasted = <<>>
    /\ transform = <<>>
    /\ raw_output = "none"
    /\ output_tif = "none"
    /\ reads = 0
    /\ m_trace = <<>>

\* no coordinate transform is being called
TransformsIdle ==
    /\ t_call = <<>>
    /\ t_result = <<>>

\* no second call is running
OtherIdle ==
    /\ o_idx = 0
    /\ o_pc = <<>>
    /\ o_left = 0
    /\ o_held = 0

\* the state in which download_xyz_tiles is called over the region of n tiles
InitWith(n, callbacks, skips, overwrites, filled) ==
    /\ FetcherInit(n, callbacks, skips, overwrites, filled)
    /\ SelectorIdle
    /\ MosaicIdle
    /\ TransformsIdle
    /\ OtherIdle

\* a fresh root directory; the arguments of the call are any
Init == InitWith(NumTiles, BOOLEAN, BOOLEAN, BOOLEAN, {0})

\* ---------------------------------------------------------------- dispatcher
NoWorkerAlive == \A i \in TileIx : w_pc[i] \in {"idle", "done"}

\* xyz_tiles.py:130-158: the caller repeats the call with the same arguments; locals,
\* tile list, counter and the initial callback
StartBatch ==
    /\ d_pc \in {"idle", "returned", "raised"}
    /\ NoWorkerAlive
    /\ batchNo < MaxBatches
    /\ batchNo' = batchNo + 1
    /\ total_tiles' = Len(tiles_to_download)
    /\ missed' = <<>>
    /\ threads' = <<>>
    /\ counter' = 0
    /\ lock' = 0
    /\ calls' = IF progress_callback THEN << <<0, Len(tiles_to_download)>> >> ELSE <<>>
    /\ idx' = 1
    /\ jdx' = 1
    /\ d_pc' = "loop"
    /\ ret' = <<>>
    /\ w_pc' = [i \in TileIx |-> "idle"]
    /\ cbs' = [i \in TileIx |-> 0]
    /\ gets' = [i \in TileIx |-> 0]
    /\ out' = [i \in TileIx |-> "none"]
    /\ wrote' = {}
    /\ small' = {}
    /\ disk0' = disk
    /\ log0' = log
    /\ UNCHANGED <<auxVars, disk, dirs, log, permits, tiles_to_download, progress_callback,
                   skip_if_exists, allow_overwrite>>

\* mutant: the dispatcher never skips
DispatcherSkips_Never(t) == FALSE

\* xyz_tiles.py:165: if skip_if_exists and os.path.isfile(file_path)
DispatcherSkips(t) == skip_if_exists /\ IsFile(t)

\* mutant: acquire() never blocks
CanAcquire_NoBlock == TRUE

\* Semaphore.acquire() returns only when the value is positive
CanAcquire == permits > 0

\* mutant: the lock excludes nobody
LockFree_NoExclusion == TRUE

\* Lock.acquire() (with progress_lock:) returns only when nobody holds the lock
LockFree == lock = 0

\* mutant: the log is opened with "w"
AppendLog_Truncating(old, lines) == lines

\* open(log_path, "a"): what the file holds after the lines are written
AppendLog(old, lines) == old \o lines

\* xyz_tiles.py:160 the for loop is exhausted
LoopEnd ==
    /\ d_pc = "loop"
    /\ idx > Len(tiles_to_download)
    /\ d_pc' = "join"
    /\ UNCHANGED <<auxVars, fsVars, argVars, permits, missed, counter, lock, threads, idx, jdx,
                   ret, w_pc, calls, cbs, gets, out, wrote, small>>

\* xyz_tiles.py:162 os.makedirs raises OSError (directory cannot be created); the
\* exception leaves download_xyz_tiles, the started threads keep running
MakedirsFails ==
    /\ d_pc = "loop"
    /\ idx <= Len(tiles_to_download)
    /\ DirOf(tiles_to_download[idx]) \notin dirs
    /\ d_pc' = "raised"
    /\ UNCHANGED <<auxVars, fsVars, argVars, permits, missed, counter, lock, threads, idx, jdx,
                   ret, w_pc, calls, cbs, gets, out, wrote, small>>

\* xyz_tiles.py:161-170 the file exists and the dispatcher skips it
LoopSkip ==
    /\ d_pc = "loop"
    /\ idx <= Len(tiles_to_download)
    /\ dirs' = dirs \cup {DirOf(tiles_to_download[idx])}
    /\ DispatcherSkips(tiles_to_download[idx])
    /\ out' = [out EXCEPT ![idx] = "dskip"]
    /\ IF progress_callback
          THEN d_pc' = "lock" /\ idx' = idx
          ELSE d_pc' = "loop" /\ idx' = idx + 1
    /\ UNCHANGED <<auxVars, disk, log, argVars, permits, missed, counter, lock, threads, jdx,
                   ret, w_pc, calls, cbs, gets, wrote, small>>

\* xyz_tiles.py:167-168 with progress_lock: counter[0] += 1
DispatcherLock ==
    /\ d_pc = "lock"
    /\ LockFree
    /\ lock' = -1
    /\ counter' = counter + 1
    /\ d_pc' = "cb"
    /\ UNCHANGED <<auxVars, fsVars, argVars, permits, missed, threads, idx, jdx,
                   ret, w_pc, calls, cbs, gets, out, wrote, small>>

\* mutant: the dispatcher goes on with the progress lock held
DispatcherCb_KeepsLock ==
    /\ d_pc = "cb"
    /\ calls' = Append(calls, <<counter, total_tiles>>)
    /\ cbs' = [cbs EXCEPT ![idx] = @ + 1]
    /\ idx' = idx + 1
    /\ d_pc' = "loop"
    /\ UNCHANGED <<auxVars, fsVars, argVars, permits, missed, counter, lock, threads, jdx,
                   ret, w_pc, gets, out, wrote, small>>

\* xyz_tiles.py:169-170 progress_callback(counter[0], counter[1]); the lock is
\* released on leaving the with block; continue
DispatcherCb ==
    /\ d_pc = "cb"
    /\ calls' = Append(calls, <<counter, total_tiles>>)
    /\ cbs' = [cbs EXCEPT ![idx] = @ + 1]
    /\ lock' = IF lock = -1 THEN 0 ELSE lock
    /\ idx' = idx + 1
    /\ d_pc' = "loop"
    /\ UNCHANGED <<auxVars, fsVars, argVars, permits, missed, counter, threads, jdx,
                   ret, w_pc, gets, out, wrote, small>>

\* xyz_tiles.py:161-165,172-180 the tile is to be fetched: thread_limiter.acquire()
\* (blocks while no permit is left); Thread(...).start(); threads.append(t)
Dispatch ==
    /\ d_pc = "loop"
    /\ idx <= Len(tiles_to_download)
    /\ dirs' = dirs \cup {DirOf(tiles_to_download[idx])}
    /\ ~DispatcherSkips(tiles_to_download[idx])
    /\ CanAcquire
    /\ permits' = permits - 1
    /\ w_pc' = [w_pc EXCEPT ![idx] = "start"]
    /\ threads' = Append(threads, idx)
    /\ idx' = idx + 1
    /\ UNCHANGED <<auxVars, disk, log, argVars, missed, counter, lock, jdx, d_pc,
                   ret, calls, cbs, gets, out, wrote, small>>

\* xyz_tiles.py:183-184 for t in threads: t.join()
JoinNext ==
    /\ d_pc = "join"
    /\ jdx <= Len(threads)
    /\ w_pc[threads[jdx]] = "done"
    /\ jdx' = jdx + 1
    /\ UNCHANGED <<auxVars, fsVars, argVars, permits, missed, counter, lock, threads, idx, d_pc,
                   ret, w_pc, calls, cbs, gets, out, wrote, small>>

JoinEnd ==
    /\ d_pc = "join"
    /\ jdx > Len(threads)
    /\ d_pc' = "log"
    /\ UNCHANGED <<auxVars, fsVars, argVars, permits, missed, counter, lock, threads, idx, jdx,
                   ret, w_pc, calls, cbs, gets, out, wrote, small>>

\* xyz_tiles.py:187,193-196 nothing failed: no log is opened
ReturnClean ==
    /\ d_pc = "log"
    /\ missed = <<>>
    /\ ret' = missed
    /\ d_pc' = "returned"
    /\ UNCHANGED <<auxVars, fsVars, argVars, permits, missed, counter, lock, threads, idx, jdx,
                   w_pc, calls, cbs, gets, out, wrote, small>>

\* xyz_tiles.py:187-196 the failures are appended to missed_tiles.log and returned
ReturnLogged ==
    /\ d_pc = "log"
    /\ missed # <<>>
    /\ log' = AppendLog(log, LogLines(missed))
    /\ ret' = missed
    /\ d_pc' = "returned"
    /\ UNCHANGED <<auxVars, disk, dirs, argVars, permits, missed, counter, lock, threads, idx, jdx,
                   w_pc, calls, cbs, gets, out, wrote, small>>

\* xyz_tiles.py:189-191 open() or f.write() raises OSError after k lines reached
\* the file: the exception leaves download_xyz_tiles, nothing is returned
LogFails ==
    /\ d_pc = "log"
    /\ missed # <<>>
    /\ \E k \in 0..(Len(missed) - 1) :
          log' = AppendLog(log, LogLines(SubSeq(missed, 1, k)))
    /\ d_pc' = "raised"
    /\ UNCHANGED <<auxVars, disk, dirs, argVars, permits, missed, counter, lock, threads, idx, jdx,
                   ret, w_pc, calls, cbs, gets, out, wrote, small>>

\* ---------------------------------------------------------------- worker (download_tile)
\* xyz_tiles.py:52: if not allow_overwrite and os.path.isfile(save_path)
WorkerSkips(t) == ~allow_overwrite /\ IsFile(t)

\* xyz_tiles.py:65: if resp.status_code == 200 and resp.content
ResponseOk(status, len) == status = HttpOk /\ len > 0

\* mutant: the size check is missing
Undersized_Unchecked(len) == FALSE

\* xyz_tiles.py:66: if len(resp.content) < 200
Undersized(len) == len < MinTileBytes

\* the statement after a terminal outcome: the progress block when a callback is
\* supplied (counter is a non-empty list, always true), else the finally clause
AfterOutcome == IF progress_callback THEN "lock" ELSE "release"

\* missed.append((x, y, zoom, why)) for the tile (z, x, y)
Missed(ms, t, why) == Append(ms, <<t[2], t[3], t[1], why>>)

\* xyz_tiles.py:52-59 the file exists: skip
WorkerSkip(i) ==
    /\ w_pc[i] = "start"
    /\ WorkerSkips(tiles_to_download[i])
    /\ out' = [out EXCEPT ![i] = "wskip"]
    /\ w_pc' = [w_pc EXCEPT ![i] = AfterOutcome]
    /\ UNCHANGED <<auxVars, fsVars, argVars, permits, missed, counter, lock, threads, idx, jdx,
                   d_pc, ret, calls, cbs, gets, wrote, small>>

\* xyz_tiles.py:52,61-64,97-101 the tile is requested and _SESSION.get raises
\* requests.RequestException
GetRaises(i) ==
    /\ w_pc[i] = "start"
    /\ ~WorkerSkips(tiles_to_download[i])
    /\ gets' = [gets EXCEPT ![i] = @ + 1]
    /\ missed' = Missed(missed, tiles_to_download[i], "RequestException")
    /\ out' = [out EXCEPT ![i] = "failed"]
    /\ w_pc' = [w_pc EXCEPT ![i] = AfterOutcome]
    /\ UNCHANGED <<auxVars, fsVars, argVars, permits, counter, lock, threads, idx, jdx,
                   d_pc, ret, calls, cbs, wrote, small>>

\* xyz_tiles.py:52,61-67,83-87,97-101 the tile is requested and _SESSION.get returns
\* a response
GetResponds(i, status, len) ==
    /\ w_pc[i] = "start"
    /\ ~WorkerSkips(tiles_to_download[i])
    /\ gets' = [gets EXCEPT ![i] = @ + 1]
    /\ IF ResponseOk(status, len)
          THEN IF Undersized(len)
                  THEN \* raise IOError("Suspiciously small tile response")
                       /\ missed' = Missed(missed, tiles_to_download[i], "IOError")
                       /\ out' = [out EXCEPT ![i] = "failed"]
                       /\ w_pc' = [w_pc EXCEPT ![i] = AfterOutcome]
                  ELSE /\ w_pc' = [w_pc EXCEPT ![i] = "write"]
                       /\ UNCHANGED <<auxVars, missed, out>>
          ELSE /\ missed' = Missed(missed, tiles_to_download[i], HttpMsg(status))
               /\ out' = [out EXCEPT ![i] = "failed"]
               /\ w_pc' = [w_pc EXCEPT ![i] = AfterOutcome]
    /\ small' = IF status = HttpOk /\ len < MinTileBytes THEN small \cup {i} ELSE small
    /\ UNCHANGED <<auxVars, fsVars, argVars, permits, counter, lock, threads, idx, jdx,
                   d_pc, ret, calls, cbs, wrote>>

\* xyz_tiles.py:69-74 _write_jpeg / _write_binary complete
WriteOk(i) ==
    /\ w_pc[i] = "write"
    /\ disk' = [disk EXCEPT ![tiles_to_download[i]] = "file"]
    /\ wrote' = wrote \cup {i}
    /\ out' = [out EXCEPT ![i] = "ok"]
    /\ w_pc' = [w_pc EXCEPT ![i] = AfterOutcome]
    /\ UNCHANGED <<auxVars, dirs, log, argVars, permits, missed, counter, lock, threads, idx, jdx,
                   d_pc, ret, calls, cbs, gets, small>>

\* xyz_tiles.py:36-38,97-101 decoding raises an OSError (PIL.UnidentifiedImageError,
\* truncated image) before the final path is opened
DecodeFails(i) ==
    /\ w_pc[i] = "write"
    /\ missed' = Missed(missed, tiles_to_download[i], "OSError")
    /\ out' = [out EXCEPT ![i] = "failed"]
    /\ w_pc' = [w_pc EXCEPT ![i] = AfterOutcome]
    /\ UNCHANGED <<auxVars, fsVars, argVars, permits, counter, lock, threads, idx, jdx,
                   d_pc, ret, calls, cbs, gets, wrote, small>>

\* xyz_tiles.py:38,40-42,97-101 the final path is opened for writing and the write
\* raises an OSError midway
WriteFails(i) ==
    /\ w_pc[i] = "write"
    /\ disk' = [disk EXCEPT ![tiles_to_download[i]] = "partial"]
    /\ wrote' = wrote \cup {i}
    /\ missed' = Missed(missed, tiles_to_download[i], "OSError")
    /\ out' = [out EXCEPT ![i] = "failed"]
    /\ w_pc' = [w_pc EXCEPT ![i] = AfterOutcome]
    /\ UNCHANGED <<auxVars, dirs, log, argVars, permits, counter, lock, threads, idx, jdx,
                   d_pc, ret, calls, cbs, gets, small>>

\* xyz_tiles.py:36-38,97,111 decoding or encoding raises an exception that is none of
\* RequestException, IOError, OSError: no except clause matches, the finally clause
\* runs and the exception ends the thread
WriteCrashes(i) ==
    /\ w_pc[i] = "write"
    /\ out' = [out EXCEPT ![i] = "crashed"]
    /\ w_pc' = [w_pc EXCEPT ![i] = "release"]
    /\ UNCHANGED <<auxVars, fsVars, argVars, permits, missed, counter, lock, threads, idx, jdx,
                   d_pc, ret, calls, cbs, gets, wrote, small>>

\* with progress_lock: counter[0] += 1
WorkerLock(i) ==
    /\ w_pc[i] = "lock"
    /\ LockFree
    /\ lock' = i
    /\ counter' = counter + 1
    /\ w_pc' = [w_pc EXCEPT ![i] = "cb"]
    /\ UNCHANGED <<auxVars, fsVars, argVars, permits, missed, threads, idx, jdx,
                   d_pc, ret, calls, cbs, gets, out, wrote, small>>

\* progress_callback(counter[0], counter[1]); the lock is released on leaving the
\* with block; return
WorkerCb(i) ==
    /\ w_pc[i] = "cb"
    /\ calls' = Append(calls, <<counter, total_tiles>>)
    /\ cbs' = [cbs EXCEPT ![i] = @ + 1]
    /\ lock' = IF lock = i THEN 0 ELSE lock
    /\ w_pc' = [w_pc EXCEPT ![i] = "release"]
    /\ UNCHANGED <<auxVars, fsVars, argVars, permits, missed, counter, threads, idx, jdx,
                   d_pc, ret, gets, out, wrote, small>>

\* mutant: the permit is not given back
Released_Kept(p) == p

\* Semaphore.release()
Released(p) == p + 1

\* xyz_tiles.py:111-112 finally: thread_limiter.release(); the thread ends
WorkerRelease(i) ==
    /\ w_pc[i] = "release"
    /\ permits' = Released(permits)
    /\ w_pc' = [w_pc EXCEPT ![i] = "done"]
    /\ UNCHANGED <<auxVars, fsVars, argVars, missed, counter, lock, threads, idx, jdx,
                   d_pc, ret, calls, cbs, gets, out, wrote, small>>

\* the steps of a running call
DispatcherRun ==
    \/ LoopEnd
    \/ MakedirsFails
    \/ LoopSkip
    \/ DispatcherLock
    \/ DispatcherCb
    \/ Dispatch
    \/ JoinNext
    \/ JoinEnd
    \/ ReturnClean
    \/ ReturnLogged
    \/ LogFails

Worker(i) ==
    \/ WorkerSkip(i)
    \/ GetRaises(i)
    \/ \E status \in Statuses, len \in Lengths : GetResponds(i, status, len)
    \/ WriteOk(i)
    \/ DecodeFails(i)
    \/ WriteFails(i)
    \/ WriteCrashes(i)
    \/ WorkerLock(i)
    \/ WorkerCb(i)
    \/ WorkerRelease(i)

Dispatcher == StartBatch \/ DispatcherRun

Next == Dispatcher \/ \E i \in TileIx : Worker(i)

Spec == Init /\ [][Next]_vars

\* the fetches in flight: workers started whose finally clause has not run
InFlight == { i \in TileIx : w_pc[i] \notin {"idle", "done"} }

\* ---------------------------------------------------------------- semaphore specification
\* A region of ManyTiles > MAX_THREADS tiles, fetched without a callback and with
\* every fetch succeeding; a call of download_tile is one step.

\* xyz_tiles.py:50-82,111-112 download_tile: the tile is requested, answered with a
\* full body and written; finally: thread_limiter.release()
DownloadTile(i) ==
    /\ w_pc[i] = "start"
    /\ ~WorkerSkips(tiles_to_download[i])
    /\ gets' = [gets EXCEPT ![i] = @ + 1]
    /\ disk' = [disk EXCEPT ![tiles_to_download[i]] = "file"]
    /\ wrote' = wrote \cup {i}
    /\ out' = [out EXCEPT ![i] = "ok"]
    /\ permits' = Released(permits)
    /\ w_pc' = [w_pc EXCEPT ![i] = "done"]
    /\ UNCHANGED <<auxVars, dirs, log, argVars, missed, counter, lock, threads, idx, jdx,
                   d_pc, ret, calls, cbs, small>>

InitLimiter == InitWith(ManyTiles, {FALSE}, {FALSE}, {TRUE}, {0})

NextLimiter ==
    \/ StartBatch
    \/ LoopEnd
    \/ Dispatch
    \/ JoinNext
    \/ JoinEnd
    \/ ReturnClean
    \/ \E i \in TileIx : DownloadTile(i)

SpecLimiter == InitLimiter /\ [][NextLimiter]_vars

\* ---------------------------------------------------------------- coordinate transforms
RECURSIVE Pow2(_)
\* 2 ** z for z >= 0
Pow2(z) == IF z <= 0 THEN 1 ELSE 2 * Pow2(z - 1)

\* utils.py:42 (1 - log(tan(lat) + 1 / cos(lat)) / pi) / 2, the share of the map
\* height north of latitude lat, in 1/100000; its values at the latitudes of the model
MercatorY(lat) ==
    CASE lat = 80 -> 11225
      [] lat = 60 -> 29039
      [] lat = 30 -> 41257
      [] lat = 0 -> 50000
      [] lat = -30 -> 58742
      [] lat = -60 -> 70960
      [] lat = -80 -> 88774

\* utils.py:31-43 deg2tile: n = 2 ** zoom (1 / 2 ** -zoom for a negative zoom);
\* int() truncates a quotient that is never negative here
deg2tile(lon, lat, z) ==
    IF z >= 0
       THEN << ((lon + 180) * Pow2(z)) \div 360, (MercatorY(lat) * Pow2(z)) \div 100000 >>
       ELSE << (lon + 180) \div (360 * Pow2(-z)), MercatorY(lat) \div (100000 * Pow2(-z)) >>

\* the latitude of the parallel that lies s16 sixteenths of the map height below
\* its top edge, utils.py:25-26 atan(sinh(pi * (1 - 2 * y / n))) in degrees, in 1/1000
LatOfShare(s16) ==
    CASE s16 = 0 -> 85051
      [] s16 = 1 -> 82676
      [] s16 = 2 -> 79171
      [] s16 = 3 -> 74020
      [] s16 = 4 -> 66513
      [] s16 = 5 -> 55777
      [] s16 = 6 -> 40980
      [] s16 = 7 -> 21943
      [] s16 = 8 -> 0
      [] s16 = 9 -> -21943
      [] s16 = 10 -> -40980
      [] s16 = 11 -> -55777
      [] s16 = 12 -> -66513
      [] s16 = 13 -> -74020
      [] s16 = 14 -> -79171
      [] s16 = 15 -> -82676
      [] s16 = 16 -> -85051
      [] s16 = 32 -> -89991
      [] OTHER -> -90000

\* utils.py:14-28 tile2deg in 1/1000 degree: n = 2 ** z (1 / 2 ** -z for a negative
\* z); zoom levels up to 4, where y / n is a whole number of sixteenths
tile2deg(x, y, z) ==
    IF z >= 0
       THEN << (x * 360000) \div Pow2(z) - 180000, LatOfShare((y * 16) \div Pow2(z)) >>
       ELSE << x * Pow2(-z) * 360000 - 180000, LatOfShare(y * 16 * Pow2(-z)) >>

\* math.cos(math.radians(latitude)) in 1/1000; utils.py:59-62 replaces a cosine
\* under 1e-6 by 1e-6, which is 0 in 1/1000
CosOf(latitude) ==
    CASE latitude = 0 -> 1000
      [] latitude = 60 -> 500
      [] latitude = -60 -> 500
      [] OTHER -> 0

\* utils.py:56 x_pixel_size = 360 / (TILE_SIZE * 2 ** zoom_level), in 1/100000 degree
x_pixel_size(z) ==
    IF z >= 0
       THEN 36000000 \div (TILE_SIZE * Pow2(z))
       ELSE (36000000 * Pow2(-z)) \div TILE_SIZE

\* utils.py:48-66 cal_pixel_size
cal_pixel_size(z, latitude) ==
    << x_pixel_size(z), (x_pixel_size(z) * CosOf(latitude)) \div 1000 >>

\* ---------------------------------------------------------------- tile selection
\* sorted((a, b))
Lo(a, b) == IF a <= b THEN a ELSE b
Hi(a, b) == IF a <= b THEN b ELSE a

\* xyz_tiles.py:139-147 the tiles of one zoom level
ZoomTiles(ext, z) ==
    LET start == deg2tile(ext.w, ext.n, z)
        end == deg2tile(ext.e, ext.s, z)
    IN  RectTiles(z, Lo(start[1], end[1]), Hi(start[1], end[1]),
                     Lo(start[2], end[2]), Hi(start[2], end[2]))

RECURSIVE RangeTiles(_, _, _)
\* xyz_tiles.py:138 for z in range(min_z, max_z + 1)
RangeTiles(ext, z, max_z) ==
    IF z > max_z THEN <<>> ELSE ZoomTiles(ext, z) \o RangeTiles(ext, z + 1, max_z)

\* the longitudes and latitudes of the model, in whole degrees inside the Web
\* Mercator range
Lons == {-180, -90, 0, 90, 179}
Lats == {80, 60, 30, 0, -30, -60, -80}
Extents == { ext \in [n : Lats, s : Lats, e : Lons, w : Lons] : ext.n > ext.s /\ ext.e > ext.w }
ZoomRanges == (0..MaxZoom) \X (0..MaxZoom)

\* xyz_tiles.py:130-158 download_xyz_tiles up to the dispatch loop: the tiles of the
\* extent are enumerated and counted, the initial callback is made
SelectTiles ==
    /\ d_pc = "idle"
    /\ extent # <<>>
    /\ tiles_to_download' = RangeTiles(extent, zoom[1], zoom[2])
    /\ total_tiles' = Len(tiles_to_download')
    /\ batchNo' = batchNo + 1
    /\ missed' = <<>>
    /\ threads' = <<>>
    /\ counter' = 0
    /\ lock' = 0
    /\ calls' = IF progress_callback THEN << <<0, total_tiles'>> >> ELSE <<>>
    /\ idx' = 1
    /\ jdx' = 1
    /\ d_pc' = "loop"
    /\ ret' = <<>>
    /\ w_pc' = [i \in 1..total_tiles' |-> "idle"]
    /\ cbs' = [i \in 1..total_tiles' |-> 0]
    /\ gets' = [i \in 1..total_tiles' |-> 0]
    /\ out' = [i \in 1..total_tiles' |-> "none"]
    /\ attempts' = [i \in 1..total_tiles' |-> [made |-> 0, last |-> 0]]
    /\ wrote' = {}
    /\ small' = {}
    /\ disk' = [t \in Range(tiles_to_download') |-> "none"]
    /\ disk0' = disk'
    /\ log0' = log
    /\ UNCHANGED <<otherVars, selVars, mosaicVars, transVars, dirs, log, permits,
                   progress_callback, skip_if_exists, allow_overwrite>>

\* download_xyz_tiles is called with an extent and a zoom range over a fresh root
InitSelect ==
    /\ FetcherInit(0, BOOLEAN, {TRUE}, {FALSE}, {0})
    /\ extent \in Extents
    /\ zoom \in ZoomRanges
    /\ route = <<>>
    /\ MosaicIdle
    /\ TransformsIdle
    /\ OtherIdle

NextSelect == SelectTiles

SpecSelect == InitSelect /\ [][NextSelect]_vars

\* ---------------------------------------------------------------- path selections
\* download_tile_corridor.py and download_tile_tolerance.py. Angles are in 1/1000
\* degree, sines and cosines in 1/10000, distances on the ground in metres, the
\* place along the path in 1/1000.
Abs(a) == IF a < 0 THEN -a ELSE a

\* math.sin at the whole degrees 0..90
SinTable ==
    << 0, 175, 349, 523, 698, 872, 1045, 1219, 1392, 1564,
       1736, 1908, 2079, 2250, 2419, 2588, 2756, 2924, 3090, 3256,
       3420, 3584, 3746, 3907, 4067, 4226, 4384, 4540, 4695, 4848,
       5000, 5150, 5299, 5446, 5592, 5736, 5878, 6018, 6157, 6293,
       6428, 6561, 6691, 6820, 6947, 7071, 7193, 7314, 7431, 7547,
       7660, 7771, 7880, 7986, 8090, 8192, 8290, 8387, 8480, 8572,
       8660, 8746, 8829, 8910, 8988, 9063, 9135, 9205, 9272, 9336,
       9397, 9455, 9511, 9563, 9613, 9659, 9703, 9744, 9781, 9816,
       9848, 9877, 9903, 9925, 9945, 9962, 9976, 9986, 9994, 9998,
       10000 >>

\* math.sin of an angle of 0 to 90 degrees; between two whole degrees the sine
\* follows the chord
Sin(a) ==
    LET d == a \div 1000
    IN  IF d >= 90 THEN 10000
        ELSE SinTable[d + 1] + ((SinTable[d + 2] - SinTable[d + 1]) * (a % 1000)) \div 1000

\* math.cos of an angle of -90 to 90 degrees
Cos(a) == Sin(90000 - Abs(a))

\* math.asin of a value of 0 to 1, the inverse of Sin
Asin(v) ==
    IF v >= 10000 THEN 90000
    ELSE LET d == CHOOSE k \in 0..89 : SinTable[k + 1] <= v /\ v < SinTable[k + 2]
         IN  d * 1000 + ((v - SinTable[d + 1]) * 1000) \div (SinTable[d + 2] - SinTable[d + 1])

RECURSIVE SqrtIn(_, _, _)
\* the largest r of lo..hi with r * r <= n
SqrtIn(n, lo, hi) ==
    IF lo = hi THEN lo
    ELSE LET mid == (lo + hi + 1) \div 2
         IN  IF mid * mid <= n THEN SqrtIn(n, mid, hi) ELSE SqrtIn(n, lo, mid - 1)

\* math.sqrt, rounded down
Sqrt(n) == SqrtIn(n, 0, 46340)

\* t * w for t in 1/1000, rounded down
Scale(t, w) == t * (w \div 1000) + (t * (w % 1000)) \div 1000

\* download_tile_corridor.py:111-125 and download_tile_tolerance.py:111-125
\* haversine_distance: a = sin(dlat/2)**2 + cos(lat1) * cos(lat2) * sin(dlon/2)**2,
\* c = 2 * asin(sqrt(a)), r = 6371 km; the result is c * r, with pi as 3.142
haversine_distance(lon1, lat1, lon2, lat2) ==
    LET sin_dlat == Sin(Abs(lat2 - lat1) \div 2)
        sin_dlon == Sin(Abs(lon2 - lon1) \div 2)
        a == sin_dlat * sin_dlat
             + ((((Cos(lat1) * Cos(lat2)) \div 10000) * sin_dlon) \div 10000) * sin_dlon
        c == 2 * Asin(Sqrt(a))
    IN  (((c * 6371) \div 10000) * 3142) \div 18

\* download_tile_tolerance.py:144 and download_tile_corridor.py:142
\* max(0, min(1, v)) in 1/1000
Clamp01(v) == IF v < 0 THEN 0 ELSE IF v > 1000 THEN 1000 ELSE v

\* download_tile_tolerance.py:135-144: the place t of the projection of the point
\* (px, py) on the segment from (x1, y1) to (x2, y2); 0 for a segment that is a
\* point. The ends of the segment are in whole degrees.
ProjectionT(px, py, x1, y1, x2, y2) ==
    LET dx == x2 - x1
        dy == y2 - y1
    IN  IF dx = 0 /\ dy = 0 THEN 0
        ELSE Clamp01(((px - x1 * 1000) * dx + (py - y1 * 1000) * dy) \div (dx * dx + dy * dy))

\* download_tile_tolerance.py:139-151: the distance from the point to the point of
\* the segment at place t, in degrees of the plane, to 1/100 degree
ClosestDistance(px, py, x1, y1, x2, y2, t) ==
    LET closest_x == x1 * 1000 + t * (x2 - x1)
        closest_y == y1 * 1000 + t * (y2 - y1)
        ex == Abs(px - closest_x) \div 10
        ey == Abs(py - closest_y) \div 10
    IN  Sqrt(ex * ex + ey * ey) * 10

\* download_tile_tolerance.py:128-153
point_to_line_segment_projection(px, py, x1, y1, x2, y2) ==
    LET t == ProjectionT(px, py, x1, y1, x2, y2)
    IN  << ClosestDistance(px, py, x1, y1, x2, y2, t), t >>

\* download_tile_corridor.py:128-149
point_to_line_distance(px, py, x1, y1, x2, y2) ==
    ClosestDistance(px, py, x1, y1, x2, y2, ProjectionT(px, py, x1, y1, x2, y2))

\* int(), which drops the fraction of a quotient of either sign
Trunc(a, b) == IF a < 0 THEN -((-a) \div b) ELSE a \div b

\* utils.py:31-43 deg2tile of a point given in 1/1000 degree, for zoom levels 0..4
\* and latitudes inside the Web Mercator range: the row is the number of row edges
\* at or north of the latitude, tile2deg being the inverse of the row formula
deg2tile_m(lon, lat, z) ==
    << Trunc((lon + 180000) * Pow2(z), 360000),
       Cardinality({ k \in 1..Pow2(z) : lat <= LatOfShare((k * 16) \div Pow2(z)) }) >>

\* download_tile_corridor.py:183-201 and download_tile_tolerance.py:206-222: the
\* box around the two points, widened by the buffer (in metres) at 111 km for a
\* degree of latitude and 111 * cos(avg_lat) km for a degree of longitude
PaddedBox(point1, point2, buffer) ==
    LET lat_buffer == buffer \div 111
        lon_buffer == (lat_buffer * 10000) \div Cos((point1[2] + point2[2]) * 500)
    IN  [min_lon |-> Lo(point1[1], point2[1]) * 1000 - lon_buffer,
         max_lon |-> Hi(point1[1], point2[1]) * 1000 + lon_buffer,
         min_lat |-> Lo(point1[2], point2[2]) * 1000 - lat_buffer,
         max_lat |-> Hi(point1[2], point2[2]) * 1000 + lat_buffer]

\* download_tile_corridor.py:208-213: the tiles of the box at one zoom level
BoxTiles(box, z) ==
    LET start == deg2tile_m(box.min_lon, box.max_lat, z)
        end == deg2tile_m(box.max_lon, box.min_lat, z)
    IN  RectTiles(z, Lo(start[1], end[1]), Hi(start[1], end[1]),
                     Lo(start[2], end[2]), Hi(start[2], end[2]))

RECURSIVE Candidates(_, _, _)
\* download_tile_corridor.py:205 for z in range(min_z, max_z + 1)
Candidates(box, z, max_z) ==
    IF z > max_z THEN <<>> ELSE BoxTiles(box, z) \o Candidates(box, z + 1, max_z)

\* download_tile_corridor.py:218 and download_tile_tolerance.py:239: the point of
\* the tile <<z, x, y>> that is measured, Transforms.tile2deg(x, y, z)
ProbeOf(tile) == tile2deg(tile[2], tile[3], tile[1])

\* download_tile_corridor.py:220-230: dist_km of a tile from the segment, in metres
PathDistance(tile, point1, point2) ==
    LET probe == ProbeOf(tile)
        dist_deg == point_to_line_distance(probe[1], probe[2],
                                           point1[1], point1[2], point2[1], point2[2])
    IN  haversine_distance(probe[1], probe[2], probe[1] + dist_deg, probe[2])

\* download_tile_corridor.py:203-234: the tiles download_path_tiles selects
PathTiles(r, zm) ==
    LET Keep(tile) == PathDistance(tile, r.point1, r.point2) <= r.buffer_width_km * 1000
    IN  SelectSeq(Candidates(PaddedBox(r.point1, r.point2, r.buffer_width_km * 1000),
                             zm[1], zm[2]), Keep)

\* the wider of the two widths everywhere
allowed_width_km_Widest(min_width, max_width, t) == Hi(min_width, max_width)

\* download_tile_tolerance.py:258 allowed_width_km
allowed_width_km(min_width, max_width, t) == min_width + Scale(t, max_width - min_width)

\* download_tile_tolerance.py:192-195 max_buffer_width_km = tolerance * path_distance_km
max_buffer_width_km(r) ==
    (haversine_distance(r.point1[1] * 1000, r.point1[2] * 1000,
                        r.point2[1] * 1000, r.point2[2] * 1000) * r.tolerance) \div 100

\* download_tile_tolerance.py:239-261: whether the tile is inside the wedge
WedgeKeeps(tile, r) ==
    LET probe == ProbeOf(tile)
        proj == point_to_line_segment_projection(probe[1], probe[2], r.point1[1], r.point1[2],
                                                 r.point2[1], r.point2[2])
        dist_km == haversine_distance(probe[1], probe[2], probe[1] + proj[1], probe[2])
    IN  dist_km <= allowed_width_km(r.min_width_km * 1000, max_buffer_width_km(r), proj[2])

\* download_tile_tolerance.py:191-262: the tiles download_triangular_path_tiles selects
WedgeTiles(r, zm) ==
    LET Keep(tile) == WedgeKeeps(tile, r)
    IN  SelectSeq(Candidates(PaddedBox(r.point1, r.point2,
                                       r.min_width_km * 1000 + max_buffer_width_km(r)),
                             zm[1], zm[2]), Keep)

\* download_tile_corridor.py:237-245 and download_tile_tolerance.py:264-272: the
\* selected tiles are counted, the progress state is made and the initial callback
\* is called; the dispatch loop comes next
Selected(tiles) ==
    /\ tiles_to_download' = tiles
    /\ total_tiles' = Len(tiles)
    /\ batchNo' = batchNo + 1
    /\ missed' = <<>>
    /\ threads' = <<>>
    /\ counter' = 0
    /\ lock' = 0
    /\ calls' = IF progress_callback THEN << <<0, Len(tiles)>> >> ELSE <<>>
    /\ idx' = 1
    /\ jdx' = 1
    /\ d_pc' = "loop"
    /\ ret' = <<>>
    /\ w_pc' = [i \in 1..Len(tiles) |-> "idle"]
    /\ cbs' = [i \in 1..Len(tiles) |-> 0]
    /\ gets' = [i \in 1..Len(tiles) |-> 0]
    /\ out' = [i \in 1..Len(tiles) |-> "none"]
    /\ attempts' = [i \in 1..Len(tiles) |-> [made |-> 0, last |-> 0]]
    /\ wrote' = {}
    /\ small' = {}
    /\ disk' = [t \in Range(tiles) |-> "none"]
    /\ disk0' = disk'
    /\ log0' = log
    /\ UNCHANGED <<otherVars, selVars, mosaicVars, transVars, dirs, log, permits,
                   progress_callback, skip_if_exists, allow_overwrite>>

\* download_tile_corridor.py:152-244 download_path_tiles up to the dispatch loop
SelectPathTiles ==
    /\ d_pc = "idle"
    /\ "buffer_width_km" \in DOMAIN route
    /\ Selected(PathTiles(route, zoom))

\* download_tile_tolerance.py:156-272 download_triangular_path_tiles up to the
\* dispatch loop
SelectWedgeTiles ==
    /\ d_pc = "idle"
    /\ "tolerance" \in DOMAIN route
    /\ Selected(WedgeTiles(route, zoom))

\* download_path_tiles is called over a fresh root with two points <<lon, lat>> in
\* whole degrees, a buffer width in km and a zoom range
InitCorridor ==
    /\ FetcherInit(0, {TRUE}, {TRUE}, {FALSE}, {0})
    /\ extent = <<>>
    /\ zoom \in { <<1, 1>>, <<2, 2>>, <<3, 3>>, <<2, 3>> }
    /\ route \in [point1 : {-90, 0, 90} \X {-30, 0, 30},
                  point2 : {-90, 0, 90} \X {-30, 0, 30},
                  buffer_width_km : {0, 500, 1500, 3000}]
    /\ MosaicIdle
    /\ TransformsIdle
    /\ OtherIdle

SpecCorridor == InitCorridor /\ [][SelectPathTiles]_vars

\* download_triangular_path_tiles is called over a fresh root with two points
\* <<lon, lat>> in whole degrees, a tolerance in 1/100, a width at point1 in km and
\* a zoom range
InitWedge ==
    /\ FetcherInit(0, {TRUE}, {TRUE}, {FALSE}, {0})
    /\ extent = <<>>
    /\ zoom \in { <<2, 2>>, <<3, 3>> }
    /\ route \in [point1 : {-45, 0, 45} \X {-30, 0, 30},
                  point2 : {-45, 0, 45} \X {-30, 0, 30},
                  tolerance : {0, 10, 20, 30},
                  min_width_km : {0, 500, 1500}]
    /\ MosaicIdle
    /\ TransformsIdle
    /\ OtherIdle

SpecWedge == InitWedge /\ [][SelectWedgeTiles]_vars

\* ---------------------------------------------------------------- mosaic builder
\* raster_map.py: merge_tiles ("all"), merge_tiles_bbox ("bbox"), merge_tiles_path
\* ("path") at zoom Zoom. A file under the tile folder is [z, x, y, parsable,
\* readable]: parsable iff its path parts are integers, readable iff PIL decodes it.
\* The corridor test of merge_tiles_path (raster_map.py:376-405) is a function of
\* the path and of the tile id: the tile ids that pass it are the set corridor.

\* raster_map.py:58-73 the names compress_with_gdal accepts, after lower()
Supported(c) == c \in {"jpeg", "lzw", "deflate", "none"}

\* raster_map.py:149-154 the tile range of the bounding box
BoxRange ==
    LET nw == deg2tile(extent.w, extent.n, Zoom)
        se == deg2tile(extent.e, extent.s, Zoom)
    IN  [x_min |-> nw[1], x_max |-> se[1],
         y_min |-> Lo(nw[2], se[2]), y_max |-> Hi(nw[2], se[2])]

\* raster_map.py:168-177 merge_tiles_bbox keeps the file
KeepBBox(f) ==
    /\ f.parsable
    /\ f.z = Zoom
    /\ BoxRange.x_min <= f.x /\ f.x <= BoxRange.x_max
    /\ BoxRange.y_min <= f.y /\ f.y <= BoxRange.y_max

\* raster_map.py:366-408 merge_tiles_path keeps the file
KeepPath(f) ==
    /\ f.parsable
    /\ f.z = Zoom
    /\ <<f.x, f.y>> \in corridor

\* tile_coords.append((x, y, tile))
Coords(files) == [k \in 1..Len(files) |-> <<files[k].x, files[k].y, files[k]>>]

\* mutant: the build goes on with no tile
NoneLeft_Ignored(coords) == FALSE

\* raster_map.py:179,410 if not tile_coords
NoneLeft(coords) == coords = <<>>

\* mutant: the first tile is taken for the smallest
MinCoord_First(coords, k) == coords[1][k]

\* min(tc[k] for tc in tile_coords)
MinCoord(coords, k) ==
    CHOOSE v \in { coords[j][k] : j \in 1..Len(coords) } :
        \A j \in 1..Len(coords) : v <= coords[j][k]

\* max(tc[k] for tc in tile_coords)
MaxCoord(coords, k) ==
    CHOOSE v \in { coords[j][k] : j \in 1..Len(coords) } :
        \A j \in 1..Len(coords) : v >= coords[j][k]

\* mutant: the offset is not taken relative to the smallest index
PasteOffset_Absolute(v, vmin) == v * TILE_SIZE

\* raster_map.py:204-205 x_offset = (x - actual_x_min) * tile_size
PasteOffset(v, vmin) == (v - vmin) * TILE_SIZE

IsReadable(tc) == tc[3].readable

\* position of the first tile that PIL cannot decode, Len + 1 if there is none
FirstBad(coords) ==
    IF \A k \in 1..Len(coords) : IsReadable(coords[k])
       THEN Len(coords) + 1
       ELSE CHOOSE k \in 1..Len(coords) :
               /\ ~IsReadable(coords[k])
               /\ \A j \in 1..(k - 1) : IsReadable(coords[j])

\* the pastes made for the tiles of coords that decode
Pastes(coords) ==
    LET good == SelectSeq(coords, IsReadable)
    IN  [k \in 1..Len(good) |->
            << good[k][1], good[k][2],
               PasteOffset(good[k][1], actual.x_min), PasteOffset(good[k][2], actual.y_min) >>]

\* raster_map.py:148-156, 241-246, 306-354 the call up to the glob; merge_tiles_path
\* returns at once when the path has fewer than 2 points
MergeStart ==
    /\ m_pc = "idle"
    /\ mode # "none"
    /\ IF mode = "path" /\ ~points_ok
          THEN m_pc' = "returned" /\ UNCHANGED m_trace
          ELSE m_pc' = "Discovering" /\ m_trace' = <<"Discovering">>
    /\ UNCHANGED <<fetchVars, selVars, transVars, mode, compress_type, points_ok, corridor, output_path,
                   folder, tile_files,
                   tile_coords, actual, merged_image, pasted, transform, raw_output,
                   output_tif, reads>>

\* raster_map.py:159-162, 246-249, 357-360 glob.glob; no file: return
Discover ==
    /\ m_pc = "Discovering"
    /\ tile_files' = folder
    /\ m_pc' = IF folder = <<>> THEN "Empty" ELSE "Filtering"
    /\ m_trace' = Append(m_trace, m_pc')
    /\ UNCHANGED <<fetchVars, selVars, transVars, mode, compress_type, points_ok, corridor, output_path,
                   folder, tile_coords,
                   actual, merged_image, pasted, transform, raw_output, output_tif,
                   reads>>

\* raster_map.py:251-255 merge_tiles parses every path outside any try: int() raises
\* ValueError for a part that is no integer; every parsed file is kept
FilterAll ==
    /\ m_pc = "Filtering"
    /\ mode = "all"
    /\ IF \E k \in 1..Len(tile_files) : ~tile_files[k].parsable
          THEN m_pc' = "raised" /\ UNCHANGED <<tile_coords, m_trace>>
          ELSE /\ tile_coords' = Coords(tile_files)
               /\ m_pc' = "Bounding"
               /\ m_trace' = Append(m_trace, "Bounding")
    /\ UNCHANGED <<fetchVars, selVars, transVars, mode, compress_type, points_ok, corridor, output_path,
                   folder, tile_files,
                   actual, merged_image, pasted, transform, raw_output, output_tif,
                   reads>>

\* raster_map.py:165-181, 363-412 the files are parsed and filtered, a path that
\* does not parse is passed over; no tile left: return
FilterRegion ==
    /\ m_pc = "Filtering"
    /\ mode \in {"bbox", "path"}
    /\ tile_coords' = IF mode = "bbox" THEN Coords(SelectSeq(tile_files, KeepBBox))
                                        ELSE Coords(SelectSeq(tile_files, KeepPath))
    /\ m_pc' = IF NoneLeft(tile_coords') THEN "Empty" ELSE "Bounding"
    /\ m_trace' = Append(m_trace, m_pc')
    /\ UNCHANGED <<fetchVars, selVars, transVars, mode, compress_type, points_ok, corridor, output_path,
                   folder, tile_files,
                   actual, merged_image, pasted, transform, raw_output, output_tif,
                   reads>>

\* raster_map.py:186-195, 257-265, 417-426 the bounds of the filtered tiles and
\* Image.new("RGB", (width, height)); min() of no tile raises ValueError
Bound ==
    /\ m_pc = "Bounding"
    /\ IF tile_coords = <<>>
          THEN m_pc' = "raised" /\ UNCHANGED <<actual, merged_image, m_trace>>
          ELSE /\ actual' = [x_min |-> MinCoord(tile_coords, 1),
                              x_max |-> MaxCoord(tile_coords, 1),
                              y_min |-> MinCoord(tile_coords, 2),
                              y_max |-> MaxCoord(tile_coords, 2)]
               /\ merged_image' = << (actual'.x_max - actual'.x_min + 1) * TILE_SIZE,
                                      (actual'.y_max - actual'.y_min + 1) * TILE_SIZE >>
               /\ m_pc' = "Compositing"
               /\ m_trace' = Append(m_trace, "Compositing")
    /\ UNCHANGED <<fetchVars, selVars, transVars, mode, compress_type, points_ok, corridor, output_path,
                   folder, tile_files,
                   tile_coords, pasted, transform, raw_output, output_tif, reads>>

\* raster_map.py:266-270 merge_tiles opens and pastes every tile outside any try:
\* the first tile that does not decode raises
CompositeAll ==
    /\ m_pc = "Compositing"
    /\ mode = "all"
    /\ pasted' = Pastes(SubSeq(tile_coords, 1, FirstBad(tile_coords) - 1))
    /\ IF FirstBad(tile_coords) <= Len(tile_coords)
          THEN /\ reads' = FirstBad(tile_coords)
               /\ m_pc' = "raised"
               /\ UNCHANGED m_trace
          ELSE /\ reads' = Len(tile_coords)
               /\ m_pc' = "Georeferencing"
               /\ m_trace' = Append(m_trace, "Georeferencing")
    /\ UNCHANGED <<fetchVars, selVars, transVars, mode, compress_type, points_ok, corridor, output_path,
                   folder, tile_files,
                   tile_coords, actual, merged_image, transform, raw_output, output_tif>>

\* raster_map.py:201-212, 427-435 every tile is opened and pasted inside a try: a
\* tile that does not decode is passed over
CompositeRegion ==
    /\ m_pc = "Compositing"
    /\ mode \in {"bbox", "path"}
    /\ pasted' = Pastes(tile_coords)
    /\ reads' = Len(tile_coords)
    /\ m_pc' = "Georeferencing"
    /\ m_trace' = Append(m_trace, "Georeferencing")
    /\ UNCHANGED <<fetchVars, selVars, transVars, mode, compress_type, points_ok, corridor, output_path,
                   folder, tile_files,
                   tile_coords, actual, merged_image, transform, raw_output, output_tif>>

\* raster_map.py:219-237, 274-279, 439-457 the origin handed to make_tif and then to
\* from_origin (raster_map.py:100), the latitude tile2deg gives for (actual_x_max,
\* actual_y_max) as south_lat, their mean as center_lat (millidegrees) and the pixel
\* size in x
Georeference ==
    /\ m_pc = "Georeferencing"
    /\ LET north_lat == tile2deg(actual.x_min, actual.y_min, Zoom)[2]
           south_lat == tile2deg(actual.x_max, actual.y_max, Zoom)[2]
       IN  transform' = [origin |-> tile2deg(actual.x_min, actual.y_min, Zoom),
                         south_lat |-> south_lat,
                         center_lat |-> (north_lat + south_lat) \div 2,
                         x_size |-> x_pixel_size(Zoom)]
    /\ m_pc' = "WritingRaw"
    /\ m_trace' = Append(m_trace, "WritingRaw")
    /\ UNCHANGED <<fetchVars, selVars, transVars, mode, compress_type, points_ok, corridor, output_path,
                   folder, tile_files,
                   tile_coords, actual, merged_image, pasted, raw_output, output_tif,
                   reads>>

\* raster_map.py:102 raw_output = output_tif.replace(".tif", "_raw.tif"): every
\* piece ".tif" of the path becomes "_raw.tif", a path without one is returned as it is
RawPath(path) ==
    [k \in DOMAIN path |-> IF path[k] = ".tif" THEN "_raw.tif" ELSE path[k]]

\* raster_map.py:100-110 make_tif writes the canvas to the temporary raw raster; when
\* the raw path is the output path that file is the file at the output path
WriteRaw ==
    /\ m_pc = "WritingRaw"
    /\ raw_output' = "file"
    /\ output_tif' = IF RawPath(output_path) = output_path THEN "file" ELSE output_tif
    /\ m_pc' = "Compressing"
    /\ m_trace' = Append(m_trace, "Compressing")
    /\ UNCHANGED <<fetchVars, selVars, transVars, mode, compress_type, points_ok, corridor, output_path,
                   folder, tile_files,
                   tile_coords, actual, merged_image, pasted, transform,
                   reads>>

\* raster_map.py:112-114, 56-80 compress_with_gdal raises ValueError for a name it
\* does not know, else gdal.Translate writes the output; os.remove(raw_output) then
\* deletes the file at the raw path, which is the output when the two paths are one
Compress ==
    /\ m_pc = "Compressing"
    /\ IF Supported(compress_type)
          THEN /\ output_tif' = IF RawPath(output_path) = output_path THEN "none" ELSE "file"
               /\ raw_output' = "none"
               /\ m_pc' = "Done"
               /\ m_trace' = Append(m_trace, "Done")
          ELSE /\ m_pc' = "raised"
               /\ UNCHANGED <<output_tif, raw_output, m_trace>>
    /\ UNCHANGED <<fetchVars, selVars, transVars, mode, compress_type, points_ok, corridor, output_path,
                   folder, tile_files,
                   tile_coords, actual, merged_image, pasted, transform, reads>>

\* the files that may lie under the tile folder: three tiles that decode and one
\* that does not at zoom Zoom, a tile of the next zoom level, a file whose path
\* does not parse
FileUniverse ==
    { [z |-> Zoom, x |-> 0, y |-> 0, parsable |-> TRUE, readable |-> TRUE],
      [z |-> Zoom, x |-> 1, y |-> 0, parsable |-> TRUE, readable |-> TRUE],
      [z |-> Zoom, x |-> 1, y |-> 1, parsable |-> TRUE, readable |-> TRUE],
      [z |-> Zoom, x |-> 0, y |-> 1, parsable |-> TRUE, readable |-> FALSE],
      [z |-> Zoom + 1, x |-> 3, y |-> 2, parsable |-> TRUE, readable |-> TRUE],
      [z |-> Zoom, x |-> 0, y |-> 0, parsable |-> FALSE, readable |-> TRUE] }

\* the folders: up to MaxFiles different files in any glob order
Folders ==
    UNION { { q \in [1..len -> FileUniverse] : \A j, k \in 1..len : j # k => q[j] # q[k] }
            : len \in 0..MaxFiles }

MosaicExtents ==
    { [n |-> 80, s |-> -80, w |-> -180, e |-> 179],
      [n |-> 80, s |-> -80, w |-> -180, e |-> -90],
      [n |-> 80, s |-> 30, w |-> -180, e |-> 179] }

Corridors == { {}, {<<0, 0>>}, {<<0, 0>>, <<1, 1>>}, {<<0, 0>>, <<1, 0>>, <<0, 1>>, <<1, 1>>} }

\* the output paths: "out.tif", "out.tiff" and "out.img"
OutputPaths == { <<"out", ".tif">>, <<"out", ".tif", "f">>, <<"out.img">> }

\* a mosaic build is called in one of the three modes over a folder
InitMosaic ==
    /\ FetcherInit(0, {FALSE}, {TRUE}, {FALSE}, {0})
    /\ TransformsIdle
    /\ OtherIdle
    /\ zoom = <<>>
    /\ route = <<>>
    /\ mode \in {"all", "bbox", "path"}
    /\ extent \in IF mode = "bbox" THEN MosaicExtents ELSE {<<>>}
    /\ corridor \in IF mode = "path" THEN Corridors ELSE {{}}
    /\ points_ok \in IF mode = "path" THEN BOOLEAN ELSE {TRUE}
    /\ compress_type \in {"jpeg", "none", "zip"}
    /\ output_path \in OutputPaths
    /\ folder \in Folders
    /\ m_pc = "idle"
    /\ tile_files = <<>>
    /\ tile_coords = <<>>
    /\ actual = <<>>
    /\ merged_image = <<>>
    /\ pasted = <<>>
    /\ transform = <<>>
    /\ raw_output = "none"
    /\ output_tif = "none"
    /\ reads = 0
    /\ m_trace = <<>>

MosaicStep ==
    \/ MergeStart
    \/ Discover
    \/ FilterAll
    \/ FilterRegion
    \/ Bound
    \/ CompositeAll
    \/ CompositeRegion
    \/ Georeference
    \/ WriteRaw
    \/ Compress

NextMosaic == MosaicStep

SpecMosaic == InitMosaic /\ [][NextMosaic]_vars

\* ---------------------------------------------------------------- calls of the transforms
\* A call is <<name, arguments>>; the zoom is any of -NegZooms..MaxZoom. None of the
\* three functions tests its zoom: 2 ** zoom is a float for a negative zoom and the
\* arithmetic goes on.
TransformCalls ==
    { <<"tile2deg", x, y, z>> : x \in 0..1, y \in 0..1, z \in (-NegZooms)..MaxZoom }
    \cup { <<"deg2tile", lon, lat, z>> : lon \in Lons, lat \in Lats, z \in (-NegZooms)..MaxZoom }
    \cup { <<"cal_pixel_size", z, lat>> : z \in (-NegZooms)..MaxZoom, lat \in {0, 60, 90} }

\* utils.py:14-66 the called function runs to its return statement
CallTransform ==
    /\ t_call # <<>>
    /\ t_result = <<>>
    /\ t_result' =
          CASE t_call[1] = "tile2deg" ->
                  <<"returned", tile2deg(t_call[2], t_call[3], t_call[4])>>
            [] t_call[1] = "deg2tile" ->
                  <<"returned", deg2tile(t_call[2], t_call[3], t_call[4])>>
            [] t_call[1] = "cal_pixel_size" ->
                  <<"returned", cal_pixel_size(t_call[2], t_call[3])>>
    /\ UNCHANGED <<fetchVars, selVars, mosaicVars, t_call>>

InitTransforms ==
    /\ FetcherInit(0, {FALSE}, {TRUE}, {FALSE}, {0})
    /\ SelectorIdle
    /\ MosaicIdle
    /\ OtherIdle
    /\ t_call \in TransformCalls
    /\ t_result = <<>>

NextTransforms == CallTransform

SpecTransforms == InitTransforms /\ [][NextTransforms]_vars

\* ---------------------------------------------------------------- retry policy
\* _SESSION.get (xyz_tiles.py:64) goes through the HTTPAdapter mounted with
\* Retry(total=5, status_forcelist=..., allowed_methods=("GET",),
\* raise_on_status=False): the adapter repeats the request while the Retry object is
\* not exhausted. total is the number of retries allowed: every failed attempt
\* decrements it, and the object is exhausted when it falls below zero.

\* xyz_tiles.py:19
status_forcelist == {408, 429, 500, 502, 503, 504}

\* what one attempt produces: a status, or a connection failure
ConnError == 0
AttemptOutcomes == {HttpOk, 404, 503, ConnError}

\* the attempt is one the policy retries
IsRetry(outcome) == outcome = ConnError \/ outcome \in status_forcelist

\* the value of total after made failed attempts
RetriesLeft(made) == RetryTotal - made

\* the adapter sends the request again
WillRetry(i) ==
    /\ attempts[i].made > 0
    /\ IsRetry(attempts[i].last)
    /\ RetriesLeft(attempts[i].made) >= 0

\* xyz_tiles.py:52,64 one HTTP attempt for the tile: the first, or a retry
SendAttempt(i, outcome) ==
    /\ w_pc[i] = "start"
    /\ ~WorkerSkips(tiles_to_download[i])
    /\ attempts[i].made = 0 \/ WillRetry(i)
    /\ attempts' = [attempts EXCEPT ![i] = [made |-> @.made + 1, last |-> outcome]]
    /\ UNCHANGED <<otherVars, selVars, mosaicVars, transVars, fsVars, argVars, permits, missed,
                   counter, lock, threads, idx, jdx, d_pc, ret, w_pc, calls, cbs, gets,
                   out, wrote, small>>

\* xyz_tiles.py:64-95 the adapter stops and _SESSION.get returns the last response
\* (raise_on_status=False), a full body
GetReturns(i) ==
    /\ attempts[i].made > 0
    /\ ~WillRetry(i)
    /\ attempts[i].last # ConnError
    /\ GetResponds(i, attempts[i].last, MinTileBytes)

\* xyz_tiles.py:64,97-109 the adapter stops after a connection failure and
\* _SESSION.get raises requests.ConnectionError
GetGivesUp(i) ==
    /\ attempts[i].made > 0
    /\ ~WillRetry(i)
    /\ attempts[i].last = ConnError
    /\ GetRaises(i)

\* One call without a callback over a fresh root; every attempt has any outcome.
InitRetry == InitWith(NumTiles, {FALSE}, {TRUE}, {FALSE}, {0})

NextRetry ==
    \/ batchNo = 0 /\ StartBatch
    \/ LoopEnd
    \/ Dispatch
    \/ JoinNext
    \/ JoinEnd
    \/ ReturnClean
    \/ ReturnLogged
    \/ \E i \in TileIx :
          \/ \E outcome \in AttemptOutcomes : SendAttempt(i, outcome)
          \/ GetReturns(i)
          \/ GetGivesUp(i)
          \/ WriteOk(i)
          \/ WorkerRelease(i)

SpecRetry == InitRetry /\ [][NextRetry]_vars

\* ---------------------------------------------------------------- one call
\* One call with a callback, over a root that is empty or already holds the first
\* tile of the region; every outcome of a fetch and of the file system.
InitOnce == InitWith(NumTiles, {TRUE}, BOOLEAN, BOOLEAN, {0, 1})

NextOnce ==
    \/ batchNo = 0 /\ StartBatch
    \/ DispatcherRun
    \/ \E i \in TileIx : Worker(i)

SpecOnce == InitOnce /\ [][NextOnce]_vars

\* ---------------------------------------------------------------- repeated calls, no fault
\* Calls repeated over a fresh root while the server answers every request with a
\* full tile and the file system works.
NextClean ==
    \/ StartBatch
    \/ LoopEnd
    \/ LoopSkip
    \/ DispatcherLock
    \/ DispatcherCb
    \/ Dispatch
    \/ JoinNext
    \/ JoinEnd
    \/ ReturnClean
    \/ \E i \in TileIx :
          \/ WorkerSkip(i)
          \/ GetResponds(i, HttpOk, MinTileBytes)
          \/ WriteOk(i)
          \/ WorkerLock(i)
          \/ WorkerCb(i)
          \/ WorkerRelease(i)

SpecClean == Init /\ [][NextClean]_vars

\* ---------------------------------------------------------------- repeated calls, failing requests
\* Calls repeated without a callback over a fresh root while the server answers
\* with a full body and any status, and writing the log may fail.
InitFlaky == InitWith(NumTiles, {FALSE}, BOOLEAN, BOOLEAN, {0})

NextFlaky ==
    \/ StartBatch
    \/ LoopEnd
    \/ LoopSkip
    \/ Dispatch
    \/ JoinNext
    \/ JoinEnd
    \/ ReturnClean
    \/ ReturnLogged
    \/ LogFails
    \/ \E i \in TileIx :
          \/ WorkerSkip(i)
          \/ \E status \in Statuses : GetResponds(i, status, MinTileBytes)
          \/ WriteOk(i)
          \/ WorkerRelease(i)

SpecFlaky == InitFlaky /\ [][NextFlaky]_vars

\* ---------------------------------------------------------------- a second call
\* download_xyz_tiles runs a second time while the first call runs: same root
\* directory, same arguments, same module and therefore the same thread_limiter.
\* Its own lists, counter and lock are not seen by the first call; what the two
\* calls share is the semaphore and the files. Its requests are answered in full.

\* xyz_tiles.py:130-158 the second call enumerates the same tiles
OtherStart ==
    /\ o_idx = 0
    /\ d_pc # "idle"
    /\ o_idx' = 1
    /\ o_pc' = [i \in TileIx |-> "idle"]
    /\ UNCHANGED <<attempts, selVars, mosaicVars, transVars, fsVars, argVars, permits,
                   missed, counter, lock, threads, idx, jdx, d_pc, ret, w_pc, calls, cbs,
                   gets, out, wrote, small, o_left, o_held>>

\* xyz_tiles.py:161-170 its dispatcher finds the file and skips the tile
OtherSkip ==
    /\ o_idx \in TileIx
    /\ DispatcherSkips(tiles_to_download[o_idx])
    /\ dirs' = dirs \cup {DirOf(tiles_to_download[o_idx])}
    /\ o_idx' = o_idx + 1
    /\ UNCHANGED <<attempts, selVars, mosaicVars, transVars, disk, log, argVars, permits,
                   missed, counter, lock, threads, idx, jdx, d_pc, ret, w_pc, calls, cbs,
                   gets, out, wrote, small, o_pc, o_left, o_held>>

\* xyz_tiles.py:161-165,172-180 its dispatcher acquires a permit and starts a worker
OtherDispatch ==
    /\ o_idx \in TileIx
    /\ ~DispatcherSkips(tiles_to_download[o_idx])
    /\ CanAcquire
    /\ permits' = permits - 1
    /\ dirs' = dirs \cup {DirOf(tiles_to_download[o_idx])}
    /\ o_pc' = [o_pc EXCEPT ![o_idx] = "start"]
    /\ o_idx' = o_idx + 1
    /\ UNCHANGED <<attempts, selVars, mosaicVars, transVars, disk, log, argVars,
                   missed, counter, lock, threads, idx, jdx, d_pc, ret, w_pc, calls, cbs,
                   gets, out, wrote, small, o_left, o_held>>

\* xyz_tiles.py:52-67 its worker returns when the file exists, else requests the
\* tile and has the body in hand
OtherGet(k) ==
    /\ o_idx # 0
    /\ o_pc[k] = "start"
    /\ o_pc' = [o_pc EXCEPT ![k] = IF WorkerSkips(tiles_to_download[k])
                                      THEN "release" ELSE "write"]
    /\ UNCHANGED <<attempts, selVars, mosaicVars, transVars, fsVars, argVars, permits,
                   missed, counter, lock, threads, idx, jdx, d_pc, ret, w_pc, calls, cbs,
                   gets, out, wrote, small, o_idx, o_left, o_held>>

\* xyz_tiles.py:69-74 its worker opens the final path and writes the tile
OtherWrite(k) ==
    /\ o_idx # 0
    /\ o_pc[k] = "write"
    /\ disk' = [disk EXCEPT ![tiles_to_download[k]] = "file"]
    /\ o_pc' = [o_pc EXCEPT ![k] = "release"]
    /\ UNCHANGED <<attempts, selVars, mosaicVars, transVars, dirs, log, argVars, permits,
                   missed, counter, lock, threads, idx, jdx, d_pc, ret, w_pc, calls, cbs,
                   gets, out, wrote, small, o_idx, o_left, o_held>>

\* xyz_tiles.py:111-112 finally: thread_limiter.release()
OtherRelease(k) ==
    /\ o_idx # 0
    /\ o_pc[k] = "release"
    /\ permits' = Released(permits)
    /\ o_pc' = [o_pc EXCEPT ![k] = "done"]
    /\ UNCHANGED <<attempts, selVars, mosaicVars, transVars, fsVars, argVars,
                   missed, counter, lock, threads, idx, jdx, d_pc, ret, w_pc, calls, cbs,
                   gets, out, wrote, small, o_idx, o_left, o_held>>

\* xyz_tiles.py:172-180 the second call dispatches a tile that lies outside the
\* region of the first call
OtherAcquire ==
    /\ o_left > 0
    /\ CanAcquire
    /\ permits' = permits - 1
    /\ o_left' = o_left - 1
    /\ o_held' = o_held + 1
    /\ UNCHANGED <<attempts, selVars, mosaicVars, transVars, fsVars, argVars,
                   missed, counter, lock, threads, idx, jdx, d_pc, ret, w_pc, calls, cbs,
                   gets, out, wrote, small, o_idx, o_pc>>

\* xyz_tiles.py:50-112 the worker of such a tile ends: finally: release()
OtherDone ==
    /\ o_held > 0
    /\ permits' = Released(permits)
    /\ o_held' = o_held - 1
    /\ UNCHANGED <<attempts, selVars, mosaicVars, transVars, fsVars, argVars,
                   missed, counter, lock, threads, idx, jdx, d_pc, ret, w_pc, calls, cbs,
                   gets, out, wrote, small, o_idx, o_pc, o_left>>

\* ---------------------------------------------------------------- two calls, one region
\* Two calls over the same extent on a fresh root, without a callback; the file
\* system works and every request is answered with a full body and any status.
PairExtents ==
    { [n |-> 80, s |-> 30, w |-> -180, e |-> -90],
      [n |-> 80, s |-> -30, w |-> -180, e |-> -90],
      [n |-> 80, s |-> 30, w |-> -180, e |-> 90] }

PairZooms == { <<0, 0>>, <<1, 1>> }

InitPair ==
    /\ FetcherInit(0, {FALSE}, {TRUE}, {FALSE}, {0})
    /\ extent \in PairExtents
    /\ zoom \in PairZooms
    /\ route = <<>>
    /\ MosaicIdle
    /\ TransformsIdle
    /\ OtherIdle

NextPair ==
    \/ SelectTiles
    \/ LoopEnd
    \/ LoopSkip
    \/ Dispatch
    \/ JoinNext
    \/ JoinEnd
    \/ ReturnClean
    \/ ReturnLogged
    \/ OtherStart
    \/ OtherSkip
    \/ OtherDispatch
    \/ \E i \in TileIx :
          \/ WorkerSkip(i)
          \/ \E status \in Statuses : GetResponds(i, status, MinTileBytes)
          \/ WriteOk(i)
          \/ WorkerRelease(i)
          \/ OtherGet(i)
          \/ OtherWrite(i)
          \/ OtherRelease(i)

SpecPair == InitPair /\ [][NextPair]_vars

\* ---------------------------------------------------------------- two calls, one semaphore
\* A call with a callback over NumTiles tiles is made while a second call over
\* another region has MAX_THREADS - 1 workers in flight and OtherTiles more tiles to
\* dispatch, on the same semaphore. Directories can
\* be made and the log can be written; every request returns (timeout=10 at
\* xyz_tiles.py:61) and the callback returns. A thread that can run is run in the
\* end: every step of the dispatcher and of a started worker is weakly fair.
InitLive ==
    /\ CallInit(NumTiles, {TRUE}, {TRUE}, {FALSE}, {0, 1})
    /\ SelectorIdle
    /\ MosaicIdle
    /\ TransformsIdle
    /\ o_idx = 0
    /\ o_pc = <<>>
    /\ o_left = OtherTiles
    /\ o_held = MAX_THREADS - 1
    /\ permits = MAX_THREADS - o_held

DispatcherLive ==
    \/ batchNo = 0 /\ StartBatch
    \/ LoopEnd
    \/ LoopSkip
    \/ DispatcherLock
    \/ DispatcherCb
    \/ Dispatch
    \/ JoinNext
    \/ JoinEnd
    \/ ReturnClean
    \/ ReturnLogged

\* the steps of a worker: it skips, its request raises or is answered in full, the
\* write succeeds or dies of an exception nobody catches; then the progress block
\* and the finally clause
WorkerLive(i) ==
    \/ WorkerSkip(i)
    \/ GetRaises(i)
    \/ GetResponds(i, HttpOk, MinTileBytes)
    \/ WriteOk(i)
    \/ WriteCrashes(i)
    \/ WorkerLock(i)
    \/ WorkerCb(i)
    \/ WorkerRelease(i)

NextLive ==
    \/ DispatcherLive
    \/ \E i \in TileIx : WorkerLive(i)
    \/ OtherAcquire
    \/ OtherDone

SpecLive ==
    /\ InitLive
    /\ [][NextLive]_vars
    /\ WF_vars(DispatcherLive)
    /\ \A i \in 1..NumTiles : WF_vars(WorkerLive(i))
    /\ WF_vars(OtherDone)

\* ---------------------------------------------------------------- claims

\* C1: at every moment the number of fetches in flight is at most MAX_THREADS, and
\* while MAX_THREADS fetches are in flight the dispatcher cannot start one more.
C1_InFlightBounded ==
    /\ Cardinality(InFlight) <= MAX_THREADS
    /\ Cardinality(InFlight) = MAX_THREADS => ~ENABLED Dispatch

\* the dispatcher has a tile to fetch and waits for a permit while MAX_THREADS
\* fetches are in flight
C1_Witness ==
    /\ Cardinality(InFlight) = MAX_THREADS
    /\ d_pc = "loop"
    /\ idx <= Len(tiles_to_download)
    /\ permits = 0

\* ---------------------------------------------------------------- helpers of the claims
IsPrefix(a, b) == Len(a) <= Len(b) /\ SubSeq(b, 1, Len(a)) = a
Last(q) == q[Len(q)]
\* the call has ended: it returned or an exception left it
CallEnded == d_pc \in {"returned", "raised"}
\* the call went through both loops before it ended
PastJoin == idx > Len(tiles_to_download) /\ jdx > Len(threads)
\* the entries of a failure list that name tile t
EntriesOf(ms, t) == { k \in 1..Len(ms) : <<ms[k][3], ms[k][1], ms[k][2]>> = t }
FetchFailed == { i \in TileIx : out[i] \in {"failed", "crashed"} }

\* C2: when the call has ended, by return or by exception, no fetch it dispatched
\* is still in flight.
C2_JoinAll == CallEnded => InFlight = {}

\* C3: when every tile was dispatched and every worker has finished, the fetch of
\* exactly one tile having failed and every other tile fetched, the failure list
\* holds exactly one entry, for that tile, the other tiles are written, and the
\* call does not raise and returns that list having appended exactly one log line.
C3_FailureIsolation ==
    (/\ d_pc \in {"join", "log", "returned", "raised"}
     /\ idx > Len(tiles_to_download)
     /\ InFlight = {}
     /\ Cardinality(FetchFailed) = 1
     /\ \A i \in TileIx \ FetchFailed : out[i] = "ok")
    => /\ Len(missed) = 1
       /\ \A i \in FetchFailed : EntriesOf(missed, tiles_to_download[i]) = {1}
       /\ \A i \in TileIx \ FetchFailed : disk[tiles_to_download[i]] = "file"
       /\ d_pc # "raised"
       /\ d_pc = "returned" => ret = missed /\ Len(log) = Len(log0) + 1

\* C4: with a callback supplied, when the call returns the callback has been made
\* exactly once for every tile, the last completed value is total, and no
\* completed value exceeds total.
C4_CallbackPerTile ==
    (progress_callback /\ d_pc = "returned")
    => /\ \A i \in TileIx : cbs[i] = 1
       /\ Last(calls)[1] = total_tiles
       /\ \A k \in 1..Len(calls) : calls[k][1] <= total_tiles

\* C5: the pairs received by the callback start with (0, total), are non-decreasing
\* in completed, carry the same total, and the k-th call after the first passes k:
\* the value of the counter at that call, every increment reported once.
C5_ProgressSerialized ==
    (progress_callback /\ d_pc # "idle")
    => /\ calls[1] = <<0, total_tiles>>
       /\ \A k \in 1..Len(calls) : calls[k][2] = total_tiles
       /\ \A k \in 2..Len(calls) : calls[k - 1][1] <= calls[k][1]
       /\ \A k \in 1..Len(calls) : calls[k][1] = k - 1
       /\ counter = IF lock = 0 THEN Len(calls) - 1 ELSE Len(calls)

\* a worker waits for the lock that another worker holds between its increment and
\* its callback, after the dispatcher reported a skipped tile
C5_Witness ==
    /\ progress_callback
    /\ \E i, j \in TileIx : w_pc[i] = "lock" /\ w_pc[j] = "cb" /\ lock = j
    /\ Len(calls) >= 1

\* C6: a call with skip_if_exists over a region whose every tile file was written
\* before it issues no request, starts no worker, fails nothing, changes no file,
\* does not raise, and returns an empty list having reported every tile.
AllWrittenBefore == \A i \in TileIx : disk0[tiles_to_download[i]] = "file"

C6_Idempotent ==
    (d_pc # "idle" /\ skip_if_exists /\ AllWrittenBefore)
    => /\ \A i \in TileIx : gets[i] = 0 /\ w_pc[i] = "idle"
       /\ threads = <<>>
       /\ missed = <<>>
       /\ disk = disk0
       /\ log = log0
       /\ d_pc # "raised"
       /\ d_pc = "returned"
            => /\ ret = <<>>
               /\ \A i \in TileIx : out[i] = "dskip"
               /\ progress_callback => counter = total_tiles /\ \A i \in TileIx : cbs[i] = 1

\* the second call over a region the first call wrote in full has returned
C6_Witness ==
    /\ batchNo >= 2
    /\ skip_if_exists
    /\ AllWrittenBefore
    /\ d_pc = "returned"
    /\ \A i \in TileIx : out[i] = "dskip"

\* C7: when the call returns, a tile whose file existed and for which overwrite is
\* not requested was skipped without a request and is not in the failure list;
\* every other tile, an existing file with allow_overwrite included, was requested
\* once.
C7_SkipOrFetch ==
    d_pc = "returned"
    => \A i \in TileIx :
          IF disk0[tiles_to_download[i]] # "none" /\ ~allow_overwrite
             THEN /\ gets[i] = 0
                  /\ out[i] \in {"dskip", "wskip"}
                  /\ EntriesOf(missed, tiles_to_download[i]) = {}
             ELSE gets[i] = 1

\* C8: a tile answered 200 with a body under 200 bytes, the empty body included,
\* is in the failure list, its final path is not written, and it is counted.
C8_UndersizedFails ==
    \A i \in small :
       /\ out[i] = "failed"
       /\ Cardinality(EntriesOf(missed, tiles_to_download[i])) = 1
       /\ i \notin wrote
       /\ disk[tiles_to_download[i]] = disk0[tiles_to_download[i]]
       /\ (progress_callback /\ w_pc[i] \in {"release", "done"}) => cbs[i] = 1

\* the call has returned after a tile was answered 200 with an undersized body
C8_Witness ==
    /\ d_pc = "returned"
    /\ progress_callback
    /\ \E i \in small : cbs[i] = 1 /\ disk[tiles_to_download[i]] = "none"

\* C9: once the workers are joined the call returns the failure list, whatever
\* happens to the log: it does not raise, and the log holds its old lines followed
\* by one line per entry in list order (nothing new for an empty list).
C9_ReturnsDespiteLog ==
    (CallEnded /\ PastJoin)
    => /\ d_pc = "returned"
       /\ ret = missed
       /\ log = log0 \o LogLines(missed)

\* C10: every step leaves the lines of missed_tiles.log in place and at most adds
\* lines after them.
C10_LogAppendOnly == [][IsPrefix(log, log')]_vars

\* a later call has appended lines after the lines an earlier call wrote
C10_Witness ==
    /\ batchNo >= 2
    /\ d_pc = "returned"
    /\ log0 # <<>>
    /\ Len(log) > Len(log0)
    /\ IsPrefix(log0, log)

\* C11: at no point of any execution, one in which the write fails midway included,
\* does a partially written file exist at the final path of a tile.
C11_NoPartialFile == \A t \in DOMAIN disk : disk[t] # "partial"

\* ---------------------------------------------------------------- C13
\* the tiles for which the file system failed: os.makedirs raised for the tile the
\* dispatch loop is at, or the write of the tile file raised
MakedirsFailed == IF d_pc = "raised" /\ idx <= Len(tiles_to_download) THEN {idx} ELSE {}
WriteFailed == { i \in TileIx : i \in wrote /\ out[i] = "failed" }
FsFailed == MakedirsFailed \cup WriteFailed

\* C13: when the call has ended after the file system failed for a tile, in
\* os.makedirs or in the write of its file, every tile was dispatched, every worker
\* was joined, the call returned instead of raising, and the failure list it
\* returned holds that tile once.
C13_FsErrorIsolated ==
    (CallEnded /\ FsFailed # {})
    => /\ idx > Len(tiles_to_download)
       /\ jdx > Len(threads)
       /\ InFlight = {}
       /\ d_pc = "returned"
       /\ ret = missed
       /\ \A i \in FsFailed : Cardinality(EntriesOf(missed, tiles_to_download[i])) = 1

\* ---------------------------------------------------------------- C12
\* C12: at most 5 HTTP attempts are made for a tile; an attempt is followed by
\* another only when it ended in a status of the force list or in a connection
\* failure; and a tile whose attempts ended without a 200 is once in the failure
\* list while the call goes on to return.
C12_AtMostFiveAttempts ==
    /\ [](\A i \in TileIx :
             /\ attempts[i].made <= 5
             /\ (w_pc[i] \in {"release", "done"} /\ attempts[i].last # HttpOk)
                  => /\ out[i] = "failed"
                     /\ Cardinality(EntriesOf(missed, tiles_to_download[i])) = 1
             /\ d_pc # "raised")
    /\ [][\A i \in TileIx :
             (attempts[i].made > 0 /\ attempts'[i].made > attempts[i].made)
             => attempts[i].last \in status_forcelist \cup {ConnError}]_vars

\* ---------------------------------------------------------------- C14
\* the rectangle of zoom z: the sorted deg2tile indices of the two corners
CornerNW(z) == deg2tile(extent.w, extent.n, z)
CornerSE(z) == deg2tile(extent.e, extent.s, z)
RectOf(z) ==
    { <<z, x, y>> : x \in Lo(CornerNW(z)[1], CornerSE(z)[1])..Hi(CornerNW(z)[1], CornerSE(z)[1]),
                    y \in Lo(CornerNW(z)[2], CornerSE(z)[2])..Hi(CornerNW(z)[2], CornerSE(z)[2]) }
RectCount(z) ==
    (Hi(CornerNW(z)[1], CornerSE(z)[1]) - Lo(CornerNW(z)[1], CornerSE(z)[1]) + 1)
    * (Hi(CornerNW(z)[2], CornerSE(z)[2]) - Lo(CornerNW(z)[2], CornerSE(z)[2]) + 1)
RECURSIVE SumCounts(_, _)
SumCounts(z, max_z) == IF z > max_z THEN 0 ELSE RectCount(z) + SumCounts(z + 1, max_z)
AtZoom(z) == { k \in TileIx : tiles_to_download[k][1] = z }

\* C14: once the tiles of an extent are enumerated, every zoom level of the range
\* has exactly (xMax-xMin+1)*(yMax-yMin+1) entries, they are the tile ids of its
\* rectangle, no tile id is listed twice or lies outside the rectangles, and the
\* total passed to the callback is the sum of the counts.
C14_RectangleEnumerated ==
    (extent # <<>> /\ d_pc = "loop")
    => /\ \A z \in zoom[1]..zoom[2] :
             /\ Cardinality(AtZoom(z)) = RectCount(z)
             /\ { tiles_to_download[k] : k \in AtZoom(z) } = RectOf(z)
       /\ \A j, k \in TileIx : j # k => tiles_to_download[j] # tiles_to_download[k]
       /\ \A k \in TileIx : tiles_to_download[k][1] \in zoom[1]..zoom[2]
       /\ total_tiles = SumCounts(zoom[1], zoom[2])
       /\ total_tiles = Len(tiles_to_download)
       /\ progress_callback => calls = << <<0, SumCounts(zoom[1], zoom[2])>> >>

\* an extent enumerated over two zoom levels, one of them with a rectangle of
\* several columns and several rows, the total reported to the callback
C14_Witness ==
    /\ extent # <<>> /\ d_pc = "loop"
    /\ zoom[2] > zoom[1]
    /\ progress_callback /\ calls # <<>>
    /\ \E z \in zoom[1]..zoom[2] :
          /\ CornerSE(z)[1] > CornerNW(z)[1]
          /\ CornerSE(z)[2] > CornerNW(z)[2]
          /\ Cardinality(AtZoom(z)) >= 4

\* ---------------------------------------------------------------- helpers of the mosaic claims
MosaicEnded == m_pc \in {"Empty", "Done", "returned", "raised"}
Least(S) == CHOOSE v \in S : \A u \in S : v <= u
Greatest(S) == CHOOSE v \in S : \A u \in S : v >= u
FilteredXs == { tile_coords[k][1] : k \in 1..Len(tile_coords) }
FilteredYs == { tile_coords[k][2] : k \in 1..Len(tile_coords) }
BadFile(f) == ~f.parsable \/ ~f.readable
BadFiles == { k \in 1..Len(folder) : BadFile(folder[k]) }

\* C15: a build called with a compression name that is not supported reads no tile
\* file, creates no temporary raw raster and writes no output, and it ends by
\* raising.
C15_RejectedBeforeIO ==
    (mode # "none" /\ points_ok /\ ~Supported(compress_type))
    => /\ reads = 0
       /\ raw_output = "none"
       /\ output_tif = "none"
       /\ MosaicEnded => m_pc = "raised"

\* the order of the states of a build that meets tiles
StateOrder == <<"Discovering", "Filtering", "Bounding", "Compositing", "Georeferencing",
                "WritingRaw", "Compressing", "Done">>

\* C16: the states a build went through are a prefix of Discovering, Filtering,
\* Bounding, Compositing, Georeferencing, Writing-Raw, Compressing, Done, or end in
\* Empty right after Discovering or Filtering; the build is in Empty exactly when
\* the glob found no file or the filter left no tile; Empty is the end of the call,
\* without an exception, with no canvas, no raw raster and no output.
C16_StateOrder ==
    /\ \/ IsPrefix(m_trace, StateOrder)
       \/ m_trace = <<"Discovering", "Empty">>
       \/ m_trace = <<"Discovering", "Filtering", "Empty">>
    /\ (m_trace # <<>> /\ m_pc # "raised") => m_pc = Last(m_trace)
    /\ m_pc = "Empty"
         <=> /\ Len(m_trace) >= 2
             /\ tile_files = <<>> \/ (Len(m_trace) >= 3 /\ tile_coords = <<>>)
    /\ m_pc = "Empty"
         => /\ merged_image = <<>>
            /\ raw_output = "none"
            /\ output_tif = "none"
            /\ pasted = <<>>

\* a build over a folder that holds files, none of which passes the filter, has
\* ended in Empty
C16_Witness ==
    /\ m_pc = "Empty"
    /\ tile_files # <<>>
    /\ m_trace = <<"Discovering", "Filtering", "Empty">>

\* C17: a build with a supported compression over a folder in which exactly one
\* file is unreadable, corrupt or has an unparsable path does not raise, and when
\* a tile that decodes passed the filter it ends in Done with the raster written.
C17_BadTileSkipped ==
    (MosaicEnded /\ Supported(compress_type) /\ Cardinality(BadFiles) = 1)
    => /\ m_pc # "raised"
       /\ (\E k \in 1..Len(tile_coords) : IsReadable(tile_coords[k]))
            => m_pc = "Done" /\ output_tif = "file"

\* C18: the canvas is (xMax-xMin+1)*tileSize by (yMax-yMin+1)*tileSize over the
\* bounds of the filtered tiles, every paste is at ((x-xMin)*tileSize,
\* (y-yMin)*tileSize), inside the canvas, and once compositing is over every
\* filtered tile that decodes has been pasted.
C18_CanvasAndOffsets ==
    merged_image # <<>>
    => /\ merged_image[1] = (Greatest(FilteredXs) - Least(FilteredXs) + 1) * TILE_SIZE
       /\ merged_image[2] = (Greatest(FilteredYs) - Least(FilteredYs) + 1) * TILE_SIZE
       /\ \A j \in 1..Len(pasted) :
             /\ pasted[j][3] = (pasted[j][1] - Least(FilteredXs)) * TILE_SIZE
             /\ pasted[j][4] = (pasted[j][2] - Least(FilteredYs)) * TILE_SIZE
             /\ 0 <= pasted[j][3] /\ pasted[j][3] <= merged_image[1] - TILE_SIZE
             /\ 0 <= pasted[j][4] /\ pasted[j][4] <= merged_image[2] - TILE_SIZE
       /\ m_pc \in {"Georeferencing", "WritingRaw", "Compressing", "Done"}
            => \A k \in 1..Len(tile_coords) :
                  IsReadable(tile_coords[k])
                  => \E j \in 1..Len(pasted) :
                        pasted[j][1] = tile_coords[k][1] /\ pasted[j][2] = tile_coords[k][2]

\* a bounding-box build whose filtered tiles start east of the requested rectangle
\* has pasted two tiles and is done
C18_Witness ==
    /\ mode = "bbox"
    /\ m_pc = "Done"
    /\ Len(pasted) >= 2
    /\ Least(FilteredXs) > BoxRange.x_min
    /\ \E j \in 1..Len(pasted) : pasted[j][4] > 0

\* C19: the origin given to the raster writer is tile2deg(xMin, yMin, zoom) for the
\* smallest x and the smallest y of the filtered tiles.
C19_OriginIsUpperLeft ==
    transform # <<>>
    => transform.origin = tile2deg(Least(FilteredXs), Least(FilteredYs), Zoom)

\* a raster was written from several tiles of which the first found is not the
\* northernmost, with an origin east of the map's west edge
C19_Witness ==
    /\ m_pc = "Done"
    /\ output_tif = "file"
    /\ Len(tile_coords) >= 2
    /\ tile_coords[1][2] > Least(FilteredYs)
    /\ transform.origin[1] > -180000

\* ---------------------------------------------------------------- C20
ZoomOf(call) == IF call[1] = "cal_pixel_size" THEN call[2] ELSE call[4]

\* C20: a call of tile2deg, deg2tile or cal_pixel_size fails exactly when its zoom
\* is negative, and then with InvalidParameter.
C20_NegativeZoomRejected ==
    t_result # <<>>
    => /\ t_result[1] = "raised" <=> ZoomOf(t_call) < 0
       /\ t_result[1] = "raised" => t_result[2] = "InvalidParameter"

\* ---------------------------------------------------------------- C21
\* C21: every step that appends to the failure list is taken by a thread that holds
\* the progress lock, and every step that increments the counter is taken with the
\* lock held.
C21_MutationsUnderLock ==
    [][ /\ \A i \in TileIx :
              (Len(missed') > Len(missed) /\ out'[i] # out[i]) => lock = i
        /\ counter' > counter => lock' # 0 ]_vars

\* C22: no file of another zoom level is among the tiles a build takes its bounds
\* and its canvas from.
C22_OnlyTargetZoom ==
    \A k \in 1..Len(tile_coords) : tile_coords[k][3].z = Zoom

\* C25: the centre latitude the pixel size is computed for is the mean of the
\* latitude of the top of row y_min and the latitude of the bottom of row y_max,
\* which is the top of row y_max + 1.
C25_CenterLatIsMidpoint ==
    transform # <<>>
        => transform.center_lat
              = (tile2deg(actual.x_min, actual.y_min, Zoom)[2]
                 + tile2deg(actual.x_max, actual.y_max + 1, Zoom)[2]) \div 2

\* C30: the temporary raw path make_tif derives differs from the output path, and
\* a build that is Done has its raster at the output path and no temporary raster.
C30_TempDiffersFromFinal ==
    /\ m_pc \in {"Compressing", "Done"} => RawPath(output_path) # output_path
    /\ m_pc = "Done" => output_tif = "file" /\ raw_output = "none"

\* C26: the permits left in thread_limiter and the workers started and not yet
\* through their finally clause add up to MAX_THREADS in every state, whatever way
\* a worker ends; when the call has returned all MAX_THREADS permits are back.
C26_PermitsConserved ==
    /\ permits + Cardinality(InFlight) = MAX_THREADS
    /\ d_pc = "returned" => permits = MAX_THREADS

\* a call has returned after one worker skipped, failed or died of an exception
\* nobody catches and the other wrote its tile
C26_Witness ==
    /\ d_pc = "returned"
    /\ permits = MAX_THREADS
    /\ \E i, j \in TileIx : out[i] = "crashed" /\ out[j] = "ok"

\* C29: when the call returns, a tile it recorded in the failure list has no file
\* at its final path unless it had one before the call.
C29_FailedTileHasNoFile ==
    d_pc = "returned"
        => \A t \in DOMAIN disk :
              EntriesOf(missed, t) # {} => disk[t] = "none" \/ disk0[t] # "none"

C28_OnePathOneWorker ==
    /\ \A i, j \in TileIx : i # j => tiles_to_download[i] # tiles_to_download[j]
    /\ \A i, j \in InFlight : i # j => tiles_to_download[i] # tiles_to_download[j]

\* a worker of each of the two calls has fetched the same tile and is about to
\* open the same path, while another worker of the first call is in flight
C28_Witness ==
    /\ o_idx # 0
    /\ \E i \in TileIx : w_pc[i] = "write" /\ o_pc[i] = "write"
    /\ Cardinality(InFlight) > 1

\* ---------------------------------------------------------------- C23
\* the wedge that the call of download_triangular_path_tiles was given, the widths
\* in metres, and what the selection measures of a candidate tile
WedgeCalled == d_pc = "loop" /\ "tolerance" \in DOMAIN route
MinWidth == route.min_width_km * 1000
MaxWidth ==
    (haversine_distance(route.point1[1] * 1000, route.point1[2] * 1000,
                        route.point2[1] * 1000, route.point2[2] * 1000) * route.tolerance) \div 100
WedgeCandidates == Range(Candidates(PaddedBox(route.point1, route.point2, MinWidth + MaxWidth),
                                    zoom[1], zoom[2]))
PlaceOf(tile) ==
    point_to_line_segment_projection(ProbeOf(tile)[1], ProbeOf(tile)[2],
                                     route.point1[1], route.point1[2],
                                     route.point2[1], route.point2[2])[2]
DistanceOf(tile) == PathDistance(tile, route.point1, route.point2)
WidthAt(t) == MinWidth + Scale(t, MaxWidth - MinWidth)

TileCenter(tile) == tile2deg(2 * tile[2] + 1, 2 * tile[3] + 1, tile[1] + 1)

\* the distance of the center of the tile from the segment, in metres, converted
\* as download_path_tiles converts it
CenterDistance(tile) ==
    LET center == TileCenter(tile)
        dist_deg == point_to_line_distance(center[1], center[2], route.point1[1], route.point1[2],
                                           route.point2[1], route.point2[2])
    IN  haversine_distance(center[1], center[2], center[1] + dist_deg, center[2])

\* C24: the corridor filter of download_path_tiles measures the distance from the
\* center of each candidate tile, the point at tile coordinates (x + 1/2, y + 1/2),
\* to the path segment, and keeps the tile exactly when that distance is at most
\* the buffer width
C24_CenterWithinBuffer ==
    (d_pc = "loop" /\ "buffer_width_km" \in DOMAIN route) =>
        \A tile \in Range(Candidates(PaddedBox(route.point1, route.point2,
                                               route.buffer_width_km * 1000), zoom[1], zoom[2])) :
            tile \in Range(tiles_to_download) <=> CenterDistance(tile) <= route.buffer_width_km * 1000

====
